---- MODULE Spec2Model ----
(***************************************************************************)
(* mrusty: safe mruby bindings.  A model of the bridge in src/src/mruby.rs: *)
(* the Mruby struct behind Rc<RefCell<..>>, the builtin require primitive,  *)
(* the method trampolines, and the Value wrapper with its foreign objects.  *)
(***************************************************************************)
EXTENDS Integers, Sequences, FiniteSets, Bags, TLC

\* ------------------------------------------------------------------ bounds
MaxLoaders == 2      \* loader callbacks registered with def_file, in total
MaxDepth   == 4      \* nesting depth of require the evaluator follows
MaxRuns    == 2      \* cap on the per-module side-effect counter
MaxDefs    == 4      \* def_class, def_method and def_class_method calls
MaxHandles == 2      \* MrubyType clones in the host's hands
MaxVals    == 2      \* Values in the host's hands
MaxInst    == 2      \* script instances created
MaxObjs    == 2      \* host objects created
MaxRcs     == 1      \* Rc<T> in the host's hands
MaxClassDefs == 2    \* def_class calls where Values are followed
MaxEntryDefs == 3    \* the same calls where the entry points are compared

\* ------------------------------------------------------- names and paths
\* A name or a path is the sequence of its dot-separated segments, after the
\* directory if it has one: "a" is <<"a">>, "a.rb" is <<"a", "rb">>,
\* "dir/script.rb" is <<"dir/", "script", "rb">>.
ModNames == { <<"a">>, <<"b">> }

RbPath(name)  == Append(name, "rb")       \* name.to_owned() + ".rb"
MrbPath(name) == Append(name, "mrb")      \* name.to_owned() + ".mrb"
BarePath(name) == name                    \* Path::new(name)

Paths == { RbPath(<<"a">>), MrbPath(<<"a">>), BarePath(<<"a">>), RbPath(<<"b">>) }

\* The paths the host hands to execute itself.
Dir == "dir/"
ExecPaths == { <<Dir, "script", "rb">>, <<"script", "mrb">>, <<"script", "txt">>,
               <<"script">> }
AllPaths == Paths \cup ExecPaths

\* The source names the host sets itself with filename.
HostNames == { <<"main", "rb">> }

\* Path::file_name: the path without its directory.
FileName(path) == IF path # <<>> /\ path[1] = Dir THEN Tail(path) ELSE path

\* Path::extension: the part after the last dot, if there is a dot.
HasExtension(path) == Len(FileName(path)) > 1
Extension(path)    == path[Len(path)]

NoName == <<>>                            \* Option<String>::None

\* ------------------------------------------------------------ raw values
\* MrValue: its type tag; the number it holds, or for a foreign-data value
\* the script instance it points to (0: an instance made inside a script and
\* never initialised) and that instance's class; the text of a string.
Val(typ, v, cls, str) == [typ |-> typ, v |-> v, cls |-> cls, str |-> str]
Nil       == Val("nil", 0, "NilClass", <<>>)
Bool(b)   == Val("bool", IF b THEN 1 ELSE 0, IF b THEN "TrueClass" ELSE "FalseClass", <<>>)
Fixnum(n) == Val("fixnum", n, "Fixnum", <<>>)
Str(text) == Val("string", 0, "String", text)
Array     == Val("array", 0, "Array", <<>>)
Data(o, cls) == Val("data", o, cls, <<>>)

\* ------------------------------------------------- exceptions and errors
\* An exception: its class, its message, and the source name of the script
\* code that was running when it was raised (NoName when that code has none).
NoExc == [eclass |-> "none", msg |-> <<>>, file |-> <<>>]
Exc(eclass, msg) == [eclass |-> eclass, msg |-> msg, file |-> <<>>]

Ok(val)        == [ok |-> TRUE,  val |-> val, kind |-> "none",    msg |-> <<>>]
Err(kind, msg) == [ok |-> FALSE, val |-> Nil, kind |-> kind,      msg |-> msg]

\* MrubyError's Display, as the segments of the rendered text.
ErrDisplay(r) ==
    CASE r.kind = "Runtime"  -> <<"Runtime error: ">> \o r.msg
      [] r.kind = "Filetype" -> <<"Filetype error: script needs a compatible (.rb, .mrb) extension">>
      [] r.kind = "Io"       -> r.msg
      [] r.kind = "Undef"    -> <<"Undefined error: type is not defined">>
      [] OTHER               -> <<"Cast error: expected ">> \o r.msg

\* io::Error's Display for a path that is no file, and for a file that
\* cannot be opened.
IoNotFound == <<"No such file or directory (os error 2)">>
IoDenied   == <<"Permission denied (os error 13)">>

\* exc.to_str: the rendered exception, "Class: message" when the code that
\* raised it has no source name and "file:line: message (Class)" when it
\* has one; every script of the model is one line long.
ExcRender(e) ==
    IF e.file = NoName
    THEN <<e.eclass, ": ">> \o e.msg
    ELSE e.file \o <<":1: ">> \o e.msg \o <<" (", e.eclass, ")">>

\* ----------------------------------------------------- scripts on disk
Script(k, name, cls, m, rescue) ==
    [k |-> k, name |-> name, cls |-> cls, m |-> m, rescue |-> rescue]
ScriptTrue       == Script("true", <<>>, "none", "none", "none")       \* true
ScriptRaise      == Script("raise", <<>>, "none", "none", "none")      \* '' + 1
ScriptRequire(n) == Script("require", n, "none", "none", "none")       \* require 'n'
\* begin; A.new.m; rescue <rescue> => e; e.message; end
ScriptICall(c, m, rescue) == Script("icall", <<>>, c, m, rescue)
ScriptNew(c) == Script("new", <<>>, c, "none", "none")                 \* A.new
\* begin; A.m; rescue <rescue> => e; e.message; end
ScriptCCall(c, m, rescue) == Script("ccall", <<>>, c, m, rescue)

\* A file that File::open refuses.
Unreadable       == Script("unreadable", <<>>, "none", "none", "none")

\* What a file of the model's file system contains unless the host writes
\* something else into it.
FileContent(path) ==
    CASE path = RbPath(<<"a">>)  -> ScriptRequire(<<"b">>)
      [] path = RbPath(<<"b">>)  -> ScriptRequire(<<"a">>)
      [] path = MrbPath(<<"a">>) -> ScriptRaise
      [] OTHER                   -> ScriptTrue

\* ------------------------------------------------------ loader callbacks
\* A loader is a host function fn(MrubyType): it registers something
\* (counted as a side effect), panics, or requires another module.
LoaderOk       == [k |-> "ok",    name |-> <<>>]
LoaderPanic    == [k |-> "panic", name |-> <<>>]
LoaderReq(n)   == [k |-> "req",   name |-> n]
Loaders == { LoaderOk, LoaderPanic } \cup { LoaderReq(n) : n \in ModNames }

\* ------------------------------------------- host types, classes, closures
Types       == { "T", "U" }            \* TypeId::of::<T>()
ClassNames  == { "A", "B" }
UserMethods == { "m" }
MethodNames == UserMethods \cup { "dup" }

\* What a panic carries: a &'static str, a String, or anything else.  A text
\* is the sequence of its pieces; "NUL" stands for a zero byte inside it.
PayloadStr    == [kind |-> "str",    text |-> <<"boom">>]
PayloadString == [kind |-> "String", text |-> <<"bang">>]
PayloadOther  == [kind |-> "other",  text |-> <<"42">>]
PayloadNul    == [kind |-> "str",    text |-> <<"a", "NUL", "b">>]
NoPayload     == [kind |-> "none",   text |-> <<>>]
Payloads == { PayloadStr, PayloadString, PayloadOther, PayloadNul }

\* A host closure Fn(MrubyType, Value) -> Value: it returns a fixnum, panics,
\* or is the dup closure that def_class installs.
NoClosure   == [k |-> "none",  v |-> 0, p |-> NoPayload]
CRet(n)     == [k |-> "ret",   v |-> n, p |-> NoPayload]
CPanic(p)   == [k |-> "panic", v |-> 0, p |-> p]
CDup        == [k |-> "dup",   v |-> 0, p |-> NoPayload]
\* |mruby, _slf| mruby.run_unchecked("'' + 1"), and a closure that uses run
\* for the same script and answers nil.
CRunUnchecked == [k |-> "unchecked", v |-> 0, p |-> NoPayload]
CRunChecked   == [k |-> "checked",   v |-> 0, p |-> NoPayload]
\* |mruby, _slf| { mruby.filename("main.rb"); mruby.nil() }
CFilename     == [k |-> "filename",  v |-> 0, p |-> NoPayload]
Closures == { CRet(1), CRet(2) } \cup { CPanic(p) : p \in Payloads }

NoClass == [reg |-> FALSE, class |-> "none", dt |-> "none", name |-> "none"]
ClassEntry(T, c) == [reg |-> TRUE, class |-> c, dt |-> T, name |-> c]

EmptyTab == [m \in MethodNames |-> NoClosure]
NoTable  == [present |-> FALSE, tab |-> EmptyTab]
NewTable == [present |-> TRUE,  tab |-> EmptyTab]

NoBinding == [c \in ClassNames |-> [m \in MethodNames |-> "none"]]

VARIABLES
    classes,       \* Mruby.classes: TypeId -> (class, data type, name)
    methods,       \* Mruby.methods: TypeId -> symbol -> closure
    class_methods, \* Mruby.class_methods
    sdef,          \* interpreter: the script classes defined
    im,            \* interpreter: class -> instance method -> trampoline's T
    cm,            \* interpreter: class -> class method -> trampoline's T
    handles,       \* MrubyType clones the host holds
    objs,          \* interpreter: the script instances (RData)
    hobjs,         \* the host objects behind Rc<T>: type, content, count
    vals,          \* the Values the host holds
    rcs,           \* the Rc<T> the host holds (from to_obj)
    ndefs,         \* registrations made so far
    filename,     \* Mruby.filename: NoName or the current source name
    files,        \* Mruby.files: name -> list of loader callbacks
    required,     \* Mruby.required
    strong,       \* strong count of the Rc<RefCell<Mruby>>
    closes,       \* number of mrb_close calls made by Mruby::drop
    exc,          \* the interpreter's active exception
    fs,           \* the paths that are files on disk
    body,         \* what each file contains
    ctxfile,      \* the file name of the interpreter's context (mrbc_filename)
    runs,         \* per module: how often its loaders or its file were run
    proc,         \* "running", or how the host process ended
    last          \* the last host operation and what it observed

loadVars == <<filename, ctxfile, files, required, fs, body, runs>>
regVars  == <<classes, methods, class_methods, sdef, im, cm, ndefs>>
rcVars   == <<strong, closes, handles>>
objVars  == <<objs, hobjs, vals, rcs>>
vars == <<loadVars, regVars, rcVars, objVars, exc, proc, last>>

\* The state the handlers below transform.
Cur ==
    [filename |-> filename, files |-> files, required |-> required,
     strong |-> strong, closes |-> closes, exc |-> exc, fs |-> fs,
     body |-> body, ctxfile |-> ctxfile, frame |-> NoName,
     runs |-> runs, proc |-> proc,
     classes |-> classes, methods |-> methods, class_methods |-> class_methods,
     sdef |-> sdef, im |-> im, cm |-> cm, handles |-> handles, ndefs |-> ndefs,
     objs |-> objs, hobjs |-> hobjs, vals |-> vals, rcs |-> rcs, calls |-> 0,
     shared |-> 0,
     ret |-> Nil, res |-> Ok(Nil), ev |-> <<>>, diverged |-> FALSE]

Event(e, name, arg, clo) == [e |-> e, name |-> name, arg |-> arg, clo |-> clo]
Log(s, e, name, arg) == [s EXCEPT !.ev = Append(@, Event(e, name, arg, NoClosure))]
LogCall(s, T, kind, m, clo) ==
    [s EXCEPT !.ev = Append(@, Event("closure", <<T, kind, m>>, 0, clo))]

Bump(s, name) ==
    [s EXCEPT !.runs[name] = IF @ < MaxRuns THEN @ + 1 ELSE @]

\* ------------------------------------------------------------ primitives
Running(s) == s.proc = "running"

\* A panic that leaves an extern "C" function unwinds into the interpreter.
Unwind(s) == [s EXCEPT !.proc = "crossed"]

\* Use of a null, dangling or mistyped pointer, or of a freed interpreter.
Wild(s) == [s EXCEPT !.proc = "wild"]

\* CString::new: fails on a text with a zero byte inside.
CStringOk(text) == \A i \in DOMAIN text : text[i] # "NUL"

\* mrb_ext_raise through MrubyImpl::raise: the exception becomes the active
\* one and the call returns nil.  CString::new(message).unwrap() panics on a
\* message CString::new refuses; raise is called inside the extern "C"
\* functions only, so that panic unwinds into the interpreter.
Raise(s, eclass, msg) ==
    IF CStringOk(msg)
    THEN [s EXCEPT !.exc = [Exc(eclass, msg) EXCEPT !.file = s.frame], !.ret = Nil]
    ELSE Unwind(s)

\* RefCell: a shared borrow of the Mruby is taken, and given back; borrow_mut
\* panics while one is out.  s.shared counts the borrows that are out.
Borrow(s)   == [s EXCEPT !.shared = @ + 1]
Unborrow(s) == [s EXCEPT !.shared = @ - 1]
AlreadyBorrowed == [kind |-> "str", text |-> <<"RefCell<T> already borrowed">>]

\* MrubyImpl::filename: the field and the interpreter's context get the name.
Filename(s, f) == [s EXCEPT !.filename = f, !.ctxfile = f]

\* Drop of one MrubyType: the strong count goes down, and Mruby::drop closes
\* the interpreter when it reaches zero.
ReleaseHandle(s) ==
    IF s.strong = 1
    THEN [s EXCEPT !.strong = 0, !.closes = @ + 1]
    ELSE [s EXCEPT !.strong = @ - 1]

\* A close made while the interpreter is running.
WildIfClosed(s) == IF s.strong = 0 THEN Wild(s) ELSE s

\* The same drop made by code the interpreter is running: a close at this
\* point frees the interpreter under its own feet.
ReleaseInside(s) == WildIfClosed(ReleaseHandle(s))

\* ----------------------------------------------------------------- Value
\* A host object is told from the others by its place in hobjs.
HObj(ty, rc) == [ty |-> ty, rc |-> rc]
SObj(cls, ptr, dt)    == [cls |-> cls, ptr |-> ptr, dt |-> dt, fin |-> FALSE]

\* mrb_ext_data_ptr: the host pointer of a foreign-data value, 0 when null.
DataPtr(s, val) == IF val.v = 0 THEN 0 ELSE s.objs[val.v].ptr
Reclaimed(s, val) == val.typ = "data" /\ val.v # 0 /\ s.objs[val.v].fin

IncRc(s, ptr) == [s EXCEPT !.hobjs[ptr].rc = @ + 1]
DecRc(s, ptr) == [s EXCEPT !.hobjs[ptr].rc = @ - 1]

\* A faulty variant of ValueClone: the clone of the Rc is kept, not dropped.
ValueCloneKeeping(s, val) ==
    [ (IF val.typ = "data"
       THEN IF Reclaimed(s, val) \/ DataPtr(s, val) = 0
            THEN Wild(s)
            ELSE IncRc(s, DataPtr(s, val))
       ELSE s)
      EXCEPT !.strong = @ + 1, !.ret = val ]

\* impl Clone for Value: for a foreign-data value the Rc is rebuilt from the
\* pointer, `rc.clone();` makes a clone that is dropped at the end of its
\* statement, and the rebuilt Rc is forgotten; then a new Value with a clone
\* of the handle.
ValueClone(s, val) ==
    [ (IF val.typ = "data"
       THEN IF Reclaimed(s, val) \/ DataPtr(s, val) = 0
            THEN Wild(s)
            ELSE DecRc(IncRc(s, DataPtr(s, val)), DataPtr(s, val))
       ELSE s)
      EXCEPT !.strong = @ + 1, !.ret = val ]

\* Value::type_name: two calls into the interpreter, class and to_s.
TypeName(val) == val.cls

\* MrValue::to_obj: the pointer is checked against the data type and comes
\* back as one more Rc<T>.
RawToObj(s, val, T) ==
    IF val.typ # "data"
    THEN [s EXCEPT !.res = Err("Cast", <<"Data">>)]
    ELSE IF DataPtr(s, val) = 0 \/ s.objs[val.v].dt # s.classes[T].dt
    THEN Wild(s)
    ELSE [IncRc(s, DataPtr(s, val))
            EXCEPT !.res = Ok(Val("rc", DataPtr(s, val), T, <<>>))]

\* A faulty variant of ToObjNamed: the names are not compared.
ToObjUnnamed(s, val, T) == RawToObj(s, val, T)

\* Value::to_obj, from the comparison of the names on.
ToObjNamed(s, val, T) ==
    IF TypeName(val) # s.classes[T].name
    THEN [s EXCEPT !.res = Err("Undef", <<>>)]
    ELSE RawToObj(s, val, T)

\* A faulty variant of ToObj: type_name is asked before the type is looked up.
ToObjNameFirst(s, val, T) ==
    IF Reclaimed(s, val) THEN Wild(s)
    ELSE ToObjNamed([s EXCEPT !.calls = @ + 2], val, T)

\* Value::to_obj
ToObj(s, val, T) ==
    IF ~s.classes[T].reg
    THEN [s EXCEPT !.res = Err("Undef", <<>>)]
    ELSE IF Reclaimed(s, val) THEN Wild(s)
    ELSE ToObjNamed([s EXCEPT !.calls = @ + 2], val, T)

\* Option<Rc<T>>: None, and Some of the Rc a cast has returned.
None == Val("none", 0, "none", <<>>)
Some(r) == IF r.ok THEN Ok(Val("some", r.val.v, r.val.cls, <<>>)) ELSE r

\* .map(|obj| Some(obj)) on what to_obj has returned.
MapSome(s) == IF Running(s) THEN [s EXCEPT !.res = Some(s.res)] ELSE s

\* A faulty variant of ToOption: the cast is tried on every value.
ToOptionEager(s, val, T) == MapSome(ToObj(s, val, T))

\* Value::to_option
ToOption(s, val, T) ==
    IF val.typ = "data"
    THEN MapSome(ToObj(s, val, T))
    ELSE [s EXCEPT !.res = Ok(None)]

\* A panic in host code outside the interpreter: the caller sees it.
Panicked(s, text) == [s EXCEPT !.res = Err("panic", <<text>>)]

\* MrubyImpl::obj with MrValue::obj: a new script instance of T's class that
\* owns the object through a fresh Rc<T>.
MkObjOp(s, T) ==
    IF ~s.classes[T].reg THEN Panicked(s, "Class not found.")
    ELSE [s EXCEPT !.hobjs = Append(@, HObj(T, 1)),
                   !.objs = Append(@, SObj(s.classes[T].class, Len(s.hobjs) + 1, T)),
                   !.strong = @ + 1,
                   !.ret = Data(Len(s.objs) + 1, s.classes[T].class),
                   !.res = Ok(Data(Len(s.objs) + 1, s.classes[T].class))]

\* MrubyImpl::nil: a Value of nil with a clone of the handle.
MkNil(s) == [s EXCEPT !.strong = @ + 1, !.ret = Nil, !.res = Ok(Nil)]

\* MrubyImpl::option
OptionOp(s, T, some) == IF some THEN MkObjOp(s, T) ELSE MkNil(s)

\* The panic of Value::init: the Rc made for the object is a raw pointer by
\* then and is never released, and the Value, taken by value, is dropped.
InitPanicked(s, T) ==
    Panicked(ReleaseHandle([s EXCEPT !.hobjs = Append(@, HObj(T, 1))]),
             "Class not found.")

\* A faulty variant of InitOp: the object the instance had is released first.
InitOpReleasing(s, val, T) ==
    IF ~s.classes[T].reg THEN InitPanicked(s, T)
    ELSE IF val.typ # "data" \/ val.v = 0 \/ Reclaimed(s, val) THEN Wild(s)
    ELSE [(IF DataPtr(s, val) # 0 THEN DecRc(s, DataPtr(s, val)) ELSE s)
            EXCEPT !.hobjs = Append(@, HObj(T, 1)),
                   !.objs[val.v].ptr = Len(s.hobjs) + 1, !.objs[val.v].dt = T,
                   !.ret = val, !.res = Ok(val)]

\* A faulty variant of InitOp: the pointer is written without T's data type.
InitOpUntagged(s, val, T) ==
    IF ~s.classes[T].reg THEN InitPanicked(s, T)
    ELSE IF val.typ # "data" \/ val.v = 0 \/ Reclaimed(s, val) THEN Wild(s)
    ELSE [s EXCEPT !.hobjs = Append(@, HObj(T, 1)),
                   !.objs[val.v].ptr = Len(s.hobjs) + 1,
                   !.ret = val, !.res = Ok(val)]

\* Value::init: a fresh Rc<T>, written into the instance with T's data type.
InitOp(s, val, T) ==
    IF ~s.classes[T].reg THEN InitPanicked(s, T)
    ELSE IF val.typ # "data" \/ val.v = 0 \/ Reclaimed(s, val) THEN Wild(s)
    ELSE [s EXCEPT !.hobjs = Append(@, HObj(T, 1)),
                   !.objs[val.v].ptr = Len(s.hobjs) + 1, !.objs[val.v].dt = T,
                   !.ret = val, !.res = Ok(val)]

\* A faulty variant of DropValueOp: the Value gives up a count of its host object.
DropValueReleasing(s, val) ==
    IF val.typ = "data" /\ val.v # 0 /\ DataPtr(s, val) # 0
    THEN DecRc(ReleaseHandle(s), DataPtr(s, val))
    ELSE ReleaseHandle(s)

\* A Value going out of scope: Value has no Drop of its own, so only its
\* handle is released.
DropValueOp(s, val) == ReleaseHandle(s)

\* An Rc<T> going out of scope.
DropRcOp(s, ptr) == DecRc(s, ptr)

\* extern "C" fn free::<T>, called by the collector for a reclaimed instance
\* that has a data type: the Rc<T> is rebuilt from the pointer and dropped.
FinalizeOp(s, o) ==
    IF s.objs[o].ptr # 0
    THEN DecRc([s EXCEPT !.objs[o].fin = TRUE], s.objs[o].ptr)
    ELSE [s EXCEPT !.objs[o].fin = TRUE]

\* ---------------------------------------------------------- registration

\* A faulty variant of DefMethodOp: the closure is stored before the table is
\* looked for.
DefMethodOpStoring(s, T, name, method) ==
    IF ~s.methods[T].present
    THEN Panicked([s EXCEPT !.methods[T].tab[name] = method], "Class not found.")
    ELSE IF ~s.classes[T].reg
    THEN Panicked([s EXCEPT !.methods[T].tab[name] = method], "Class not found.")
    ELSE [s EXCEPT !.methods[T].tab[name] = method,
                   !.im[s.classes[T].class][name] = T]

\* MrubyImpl::def_method
DefMethodOp(s, T, name, method) ==
    IF ~s.methods[T].present THEN Panicked(s, "Class not found.")
    ELSE IF ~s.classes[T].reg
    THEN Panicked([s EXCEPT !.methods[T].tab[name] = method], "Class not found.")
    ELSE [s EXCEPT !.methods[T].tab[name] = method,
                   !.im[s.classes[T].class][name] = T]

\* A faulty variant of DefClassMethodOp: one table holds both kinds of method.
DefClassMethodOpShared(s, T, name, method) ==
    IF ~s.class_methods[T].present THEN Panicked(s, "Class not found.")
    ELSE IF ~s.classes[T].reg
    THEN Panicked([s EXCEPT !.class_methods[T].tab[name] = method], "Class not found.")
    ELSE [s EXCEPT !.class_methods[T].tab[name] = method,
                   !.methods[T].tab[name] = method,
                   !.cm[s.classes[T].class][name] = T]

\* MrubyImpl::def_class_method
DefClassMethodOp(s, T, name, method) ==
    IF ~s.class_methods[T].present THEN Panicked(s, "Class not found.")
    ELSE IF ~s.classes[T].reg
    THEN Panicked([s EXCEPT !.class_methods[T].tab[name] = method], "Class not found.")
    ELSE [s EXCEPT !.class_methods[T].tab[name] = method,
                   !.cm[s.classes[T].class][name] = T]

\* A faulty variant of DefClassOp: the dup method is not installed.
DefClassOpBare(s, T, c) ==
    [s EXCEPT !.sdef = @ \cup {c},
              !.classes[T] = ClassEntry(T, c),
              !.methods[T] = NewTable,
              !.class_methods[T] = NewTable]

\* MrubyImpl::def_class
DefClassOp(s, T, c) ==
    DefMethodOp([s EXCEPT !.sdef = @ \cup {c},
                          !.classes[T] = ClassEntry(T, c),
                          !.methods[T] = NewTable,
                          !.class_methods[T] = NewTable],
                T, "dup", CDup)

\* A faulty variant of ClassNameOp: the name is read without the lookup.
ClassNameOpUnchecked(s, T) == [s EXCEPT !.res = Ok(Str(<<s.classes[T].name>>))]

\* MrubyImpl::class_name: the name recorded for T, as a String.
ClassNameOp(s, T) ==
    IF s.classes[T].reg
    THEN [s EXCEPT !.res = Ok(Str(<<s.classes[T].name>>))]
    ELSE [s EXCEPT !.res = Err("Undef", <<>>)]

\* ---------------------------------------------------------- entry points
\* mrb_ext_get_exc: reads the active exception and clears it.
TakeExc(s) == [s EXCEPT !.exc = NoExc]

RECURSIVE Require(_, _, _)
RECURSIVE RunLoaders(_, _, _, _, _)
RECURSIVE EvalScript(_, _, _)
RECURSIVE EvalBytes(_, _, _)

\* MrubyImpl::run, after the script has run.
Checked(s) ==
    IF ~Running(s) THEN s
    ELSE IF s.exc = NoExc
         THEN [s EXCEPT !.res = Ok(s.ret)]
         ELSE [TakeExc(s) EXCEPT !.res = Err("Runtime", ExcRender(s.exc))]

\* MrubyImpl::run: load the source under the context, then turn an active
\* exception into Err(Runtime).
Run(s, script, fuel) == Checked(EvalScript(Log(s, "run", <<>>, 0), script, fuel))

\* MrubyImpl::runb: the same for bytecode.
Runb(s, script, fuel) == Checked(EvalBytes(Log(s, "runb", <<>>, 0), script, fuel))

\* MrubyImpl::run_unchecked, after the script has run.
Unchecked(s) == IF ~Running(s) THEN s ELSE [s EXCEPT !.res = Ok(s.ret)]

\* A faulty variant of RunUnchecked: the exception is taken away.
RunUncheckedClearing(s, script, fuel) ==
    TakeExc(Unchecked(EvalScript(s, script, fuel)))

\* MrubyImpl::run_unchecked: the exception stays active.
RunUnchecked(s, script, fuel) == Unchecked(EvalScript(s, script, fuel))

\* ----------------------------------------------------------- trampolines
\* error.downcast_ref::<&'static str>(), then ::<String>(), else "".
PanicMessage(p) ==
    IF p.kind = "str" THEN p.text
    ELSE IF p.kind = "String" THEN p.text
    ELSE <<>>

\* The Value the closure returned is dropped once its raw value is taken.
DropArg(s) == IF Running(s) THEN ReleaseInside(s) ELSE s

\* method(mruby.clone(), value) inside panic::recover: the value the closure
\* returns, or the exception raised for its panic.
RunClosure(s, clo, slf) ==
    CASE clo.k = "ret"   -> [s EXCEPT !.ret = Fixnum(clo.v)]
      [] clo.k = "panic" -> Raise(s, "RustPanic", PanicMessage(clo.p))
      [] clo.k = "unchecked" -> RunUnchecked(s, ScriptRaise, 1)
      [] clo.k = "checked"   -> [Run(s, ScriptRaise, 1) EXCEPT !.ret = Nil]
      [] clo.k = "filename"  ->
             IF s.shared > 0
             THEN Raise(Log(s, "conflict", <<>>, 0), "RustPanic",
                        PanicMessage(AlreadyBorrowed))
             ELSE [Filename(s, <<"main", "rb">>) EXCEPT !.ret = Nil]
      [] OTHER           -> DropArg(ValueClone(s, slf))

\* The `return mruby.raise(..).value` exits: the handle rebuilt from the
\* user data is dropped with the other locals, mem::forget is not reached.
LeaveEarly(s) == ReleaseInside(s)

\* extern "C" fn call_method::<T>
CallMethod(s, T, slf, sym) ==
    IF ~s.methods[T].present
    THEN LeaveEarly(Raise(s, "TypeError", <<"Class not found.">>))
    ELSE IF s.methods[T].tab[sym] = NoClosure
    THEN LeaveEarly(Raise(s, "TypeError", <<"Method not found.">>))
    ELSE RunClosure(LogCall(s, T, "instance", sym, s.methods[T].tab[sym]),
                    s.methods[T].tab[sym], slf)

\* extern "C" fn call_class_method::<T>
CallClassMethod(s, T, slf, sym) ==
    IF ~s.class_methods[T].present
    THEN LeaveEarly(Raise(s, "TypeError", <<"Class not found.">>))
    ELSE IF s.class_methods[T].tab[sym] = NoClosure
    THEN LeaveEarly(Raise(s, "TypeError", <<"Method not found.">>))
    ELSE RunClosure(LogCall(s, T, "class", sym, s.class_methods[T].tab[sym]),
                    s.class_methods[T].tab[sym], slf)

\* The interpreter sending m to a receiver of class c: the native function
\* bound to m in c is entered, or NoMethodError.
SendInstance(s, c, slf, m) ==
    IF c \notin s.sdef THEN Raise(s, "NameError", <<"uninitialized constant">>)
    ELSE IF s.im[c][m] = "none" THEN Raise(s, "NoMethodError", <<"undefined method">>)
    ELSE CallMethod(s, s.im[c][m], slf, m)

SendClass(s, c, m) ==
    IF c \notin s.sdef THEN Raise(s, "NameError", <<"uninitialized constant">>)
    ELSE IF s.cm[c][m] = "none" THEN Raise(s, "NoMethodError", <<"undefined method">>)
    ELSE CallClassMethod(s, s.cm[c][m], Val("class", 0, "Class", <<>>), m)

\* rescue <eclass> => e; e.message
Rescue(s, eclass) ==
    IF Running(s) /\ s.exc # NoExc /\ s.exc.eclass = eclass
    THEN [s EXCEPT !.ret = Str(s.exc.msg), !.exc = NoExc]
    ELSE s

\* Value::call, after mrb_funcall_argv has returned.
Called(s) ==
    IF ~Running(s) THEN s
    ELSE IF s.exc = NoExc
         THEN [s EXCEPT !.res = Ok(s.ret), !.strong = @ + 1]
         ELSE [TakeExc(s) EXCEPT !.res = Err("Runtime", ExcRender(s.exc))]

\* mrb_funcall_argv on the Value.
Funcall(s, val, name) ==
    IF val.typ = "data"
    THEN SendInstance(s, val.cls, val, name)
    ELSE Raise(s, "NoMethodError", <<"undefined method">>)

\* Value::call: mrb_funcall_argv, then an active exception becomes
\* Err(Runtime); the result is a new Value with a clone of the handle.  The
\* Ref of `self.mruby.borrow().mrb` in the arguments of mrb_funcall_argv is
\* a temporary of that statement and is out until the call has returned.
ValueCall(s, val, name) ==
    IF Reclaimed(s, val) THEN Wild(s)
    ELSE Called(Unborrow(Funcall(Borrow(s), val, name)))

\* Value::call_unchecked, after mrb_funcall_argv has returned: a new Value
\* whatever happened.
CalledUnchecked(s) ==
    IF ~Running(s) THEN s ELSE [s EXCEPT !.res = Ok(s.ret), !.strong = @ + 1]

\* Value::call_unchecked
ValueCallUnchecked(s, val, name) ==
    IF Reclaimed(s, val) THEN Wild(s)
    ELSE CalledUnchecked(Unborrow(Funcall(Borrow(s), val, name)))

\* A faulty variant of MarkRequired: the insert into the required-set is forgotten.
MarkRequiredForgotten(s, name) == s

\* mruby.borrow_mut().required.insert(name)
MarkRequired(s, name) == [s EXCEPT !.required = @ \cup {name}]

\* A faulty variant of Opened: every file with an extension is run as source.
OpenedAsSource(s, path, fuel) ==
    IF path \notin s.fs THEN [s EXCEPT !.res = Err("Io", IoNotFound)]
    ELSE IF s.body[path] = Unreadable THEN [s EXCEPT !.res = Err("Io", IoDenied)]
    ELSE Run(Log(s, "file", path, 0), s.body[path], fuel)

\* MrubyImpl::execute from File::open on: the file is opened, then read and
\* run according to the extension.
Opened(s, path, fuel) ==
    IF path \notin s.fs THEN [s EXCEPT !.res = Err("Io", IoNotFound)]
    ELSE IF s.body[path] = Unreadable THEN [s EXCEPT !.res = Err("Io", IoDenied)]
    ELSE CASE Extension(path) = "rb"  -> Run(Log(s, "file", path, 0), s.body[path], fuel)
           [] Extension(path) = "mrb" -> Runb(Log(s, "file", path, 0), s.body[path], fuel)
           [] OTHER                   -> [s EXCEPT !.res = Err("Filetype", <<>>)]

\* A faulty variant of Execute: the source name is set once the file is known
\* to be there.
ExecuteNamingLate(s, path, fuel) ==
    IF HasExtension(path)
    THEN IF path \notin s.fs
         THEN [Log(s, "execute", path, s.filename) EXCEPT !.res = Err("Io", IoNotFound)]
         ELSE Opened(Filename(Log(s, "execute", path, s.filename), FileName(path)),
                     path, fuel)
    ELSE [Log(s, "execute", path, s.filename) EXCEPT !.res = Err("Filetype", <<>>)]

\* A faulty variant of Execute: the source name is not set.
ExecuteUnnamed(s, path, fuel) ==
    IF HasExtension(path)
    THEN Opened(Log(s, "execute", path, s.filename), path, fuel)
    ELSE [Log(s, "execute", path, s.filename) EXCEPT !.res = Err("Filetype", <<>>)]

\* MrubyImpl::execute
Execute(s, path, fuel) ==
    IF HasExtension(path)
    THEN Opened(Filename(Log(s, "execute", path, s.filename), FileName(path)),
                path, fuel)
    ELSE [Log(s, "execute", path, s.filename) EXCEPT !.res = Err("Filetype", <<>>)]

\* A faulty variant of Restore: the source name is left as execute set it.
RestoreForgotten(s, saved) == s

\* The source name saved before execute is put back: through filename when
\* there was one, into the field alone when there was none.
Restore(s, saved) ==
    IF saved # NoName THEN Filename(s, saved) ELSE [s EXCEPT !.filename = NoName]

\* The source name the load leaves behind.
Loaded(s) == Log(s, "loaded", s.filename, 0)

\* A faulty variant of RaiseOnErr: the text inside the error is raised in
\* place of the error's description.
RaiseOnErrBare(s) ==
    IF ~s.res.ok
    THEN Raise(Log(s, "failed", <<>>, s.res), "RuntimeError", s.res.msg)
    ELSE s

\* A failed execute is raised as RuntimeError with the error's Display.
RaiseOnErr(s) ==
    IF ~s.res.ok
    THEN Raise(Log(s, "failed", <<>>, s.res), "RuntimeError", ErrDisplay(s.res))
    ELSE s

\* mruby.bool(true)
AnswerTrue(s) == IF ~Running(s) THEN s ELSE [s EXCEPT !.ret = Bool(TRUE)]

\* The closure `execute`, after mruby.execute(path) has returned.
Executed(s, saved) ==
    IF ~Running(s) THEN s ELSE AnswerTrue(RaiseOnErr(Loaded(Restore(s, saved))))

\* A faulty variant of RequireExecute: the name of a load that failed is
\* taken out of the required-set again.
UnmarkFailed(s, name) ==
    IF Running(s) /\ s.exc # NoExc THEN [s EXCEPT !.required = @ \ {name}] ELSE s

RequireExecuteRetrying(s, path, name, saved, fuel) ==
    UnmarkFailed(Executed(Execute(Bump(MarkRequired(s, name), name), path, fuel),
                          saved),
                 name)

\* A faulty variant of RequireExecute: the name is marked after the file has run.
RequireExecuteLate(s, path, name, saved, fuel) ==
    MarkRequired(Executed(Execute(Bump(s, name), path, fuel), saved), name)

\* The closure `execute` inside require: mark, execute, restore the source
\* name, raise on failure, answer true.
RequireExecute(s, path, name, saved, fuel) ==
    Executed(Execute(Bump(MarkRequired(s, name), name), path, fuel), saved)

\* for req in reqs { req(mruby.clone()) }
RunLoader(s, name, i, req, fuel) ==
    CASE req.k = "ok"    -> Log(s, "loader", name, i)
      [] req.k = "panic" -> Unwind(Log(s, "loader", name, i))
      [] OTHER           -> RunUnchecked(Log(s, "loader", name, i),
                                         ScriptRequire(req.name), fuel)

\* A faulty variant of RunLoaders: only the first callback is invoked.
RunLoadersFirst(s, name, reqs, i, fuel) ==
    IF i > 1 \/ ~Running(s) THEN s
    ELSE RunLoader(s, name, i, reqs[i], fuel)

RunLoaders(s, name, reqs, i, fuel) ==
    IF i > Len(reqs) \/ ~Running(s) THEN s
    ELSE RunLoaders(RunLoader(s, name, i, reqs[i], fuel), name, reqs, i + 1, fuel)

\* A faulty variant of Candidate: the file named name itself comes first.
CandidateBareFirst(s, name) ==
    IF BarePath(name) \in s.fs THEN BarePath(name)
    ELSE IF RbPath(name) \in s.fs THEN RbPath(name)
    ELSE IF MrbPath(name) \in s.fs THEN MrbPath(name)
    ELSE NoName

\* The file require executes: name.rb, else name.mrb, else name itself;
\* NoName when none of them is a file.
Candidate(s, name) ==
    IF RbPath(name) \in s.fs THEN RbPath(name)
    ELSE IF MrbPath(name) \in s.fs THEN MrbPath(name)
    ELSE IF BarePath(name) \in s.fs THEN BarePath(name)
    ELSE NoName

\* A faulty variant of CannotLoad: the name is marked before the exception
\* is raised.
CannotLoadMarked(s, name) ==
    Raise(MarkRequired(s, name), "RuntimeError",
          <<"cannot load ">> \o RbPath(name) \o <<" or ">> \o MrbPath(name))

\* format!("cannot load {}.rb or {}.mrb", name, name), raised when no
\* candidate is a file.
CannotLoad(s, name) ==
    Raise(s, "RuntimeError",
          <<"cannot load ">> \o RbPath(name) \o <<" or ">> \o MrbPath(name))

\* The builtin require primitive installed by Mruby::new.
Require(s, name, fuel) ==
    IF ~Running(s) THEN s
    ELSE IF fuel = 0 THEN [s EXCEPT !.diverged = TRUE]
    ELSE IF name \in s.required
    THEN [Log(s, "skip", name, 0) EXCEPT !.ret = Bool(FALSE)]
    ELSE IF s.files[name] # <<>>
    THEN AnswerTrue(RunLoaders(Bump(MarkRequired(s, name), name),
                               name, s.files[name], 1, fuel - 1))
    ELSE IF Candidate(s, name) # NoName
    THEN RequireExecute(s, Candidate(s, name), name, s.filename, fuel - 1)
    ELSE CannotLoad(s, name)

\* A script that ends with an exception active has the value nil.
Ended(s) == IF Running(s) /\ s.exc # NoExc THEN [s EXCEPT !.ret = Nil] ELSE s

\* What the code of a script does.
EvalBody(s, script, fuel) ==
           CASE script.k = "true"  -> [s EXCEPT !.ret = Bool(TRUE)]
             [] script.k = "raise" ->
                    Raise(s, "TypeError", <<"expected String">>)
             [] script.k = "icall" ->
                    SendInstance(s, script.cls, Data(0, script.cls), script.m)
             [] script.k = "new" ->
                    IF script.cls \notin s.sdef
                    THEN Raise(s, "NameError", <<"uninitialized constant">>)
                    ELSE [s EXCEPT !.objs = Append(@, SObj(script.cls, 0, "none")),
                                   !.ret = Data(Len(s.objs) + 1, script.cls)]
             [] script.k = "ccall" ->
                    SendClass(s, script.cls, script.m)
             [] OTHER -> Require(s, script.name, fuel)

\* The code is left: the caller's code is the running one again.
Leave(s, frame) == [s EXCEPT !.frame = frame]

\* The interpreter running code whose source name is file: the value of the
\* script, or nil when it ends with an exception active.
Eval(s, script, file, fuel) ==
    IF ~Running(s) THEN s
    ELSE Leave(Ended(Rescue(EvalBody([s EXCEPT !.frame = file], script, fuel),
                            script.rescue)),
               s.frame)

\* mrb_load_nstring_cxt: the source is compiled under the context, whose
\* file name becomes the source name of its code.
EvalScript(s, script, fuel) == Eval(s, script, s.ctxfile, fuel)

\* mrb_load_irep_cxt: bytecode brings its own debug information; the files
\* of the model were compiled without any, so their code has no source name.
EvalBytes(s, script, fuel) == Eval(s, script, NoName, fuel)

\* ------------------------------------------------------------------ state
TypeOK ==
    /\ filename \in {NoName} \cup { FileName(p) : p \in AllPaths } \cup HostNames
    /\ ctxfile \in {NoName} \cup { FileName(p) : p \in AllPaths } \cup HostNames
    /\ required \subseteq ModNames
    /\ fs \subseteq AllPaths
    /\ proc \in {"running", "aborted", "unwound", "corrupt"}
    /\ strong \in Nat /\ closes \in Nat /\ handles \in Nat
    /\ sdef \subseteq ClassNames

NoLast == [op |-> "none", name |-> <<>>, was |-> FALSE, res |-> Ok(Nil),
           ev |-> <<>>, diverged |-> FALSE, calls |-> 0, arg |-> <<>>]

Init ==
    /\ filename = NoName
    /\ files    = [n \in ModNames |-> <<>>]
    /\ required = {}
    /\ strong   = 1
    /\ closes   = 0
    /\ exc      = NoExc
    /\ fs       = {}
    /\ body     = [p \in AllPaths |-> FileContent(p)]
    /\ ctxfile  = NoName
    /\ runs     = [n \in ModNames |-> 0]
    /\ proc     = "running"
    /\ last     = NoLast
    /\ classes       = [T \in Types |-> NoClass]
    /\ methods       = [T \in Types |-> NoTable]
    /\ class_methods = [T \in Types |-> NoTable]
    /\ sdef     = {}
    /\ im       = NoBinding
    /\ cm       = NoBinding
    /\ handles  = 1
    /\ ndefs    = 0
    /\ objs     = <<>>
    /\ hobjs    = <<>>
    /\ vals     = EmptyBag
    /\ rcs      = EmptyBag

\* What an operation leaves behind: the fields of s, and the outcome of an
\* unwind across the foreign-call boundary, which the language leaves
\* undefined (the process aborts, or the unwind reaches the host caller).
Commit(s) ==
    /\ filename' = s.filename
    /\ files'    = s.files
    /\ required' = s.required
    /\ strong'   = s.strong
    /\ closes'   = s.closes
    /\ exc'      = s.exc
    /\ fs'       = s.fs
    /\ body'     = s.body
    /\ ctxfile'  = s.ctxfile
    /\ runs'     = s.runs
    /\ proc'     \in CASE s.proc = "crossed" -> {"aborted", "unwound"}
                       [] s.proc = "wild"    -> {"aborted", "corrupt"}
                       [] OTHER              -> {s.proc}
    /\ classes'  = s.classes
    /\ methods'  = s.methods
    /\ class_methods' = s.class_methods
    /\ sdef'     = s.sdef
    /\ im'       = s.im
    /\ cm'       = s.cm
    /\ handles'  = s.handles
    /\ ndefs'    = s.ndefs
    /\ objs'     = s.objs
    /\ hobjs'    = s.hobjs
    /\ vals'     = s.vals
    /\ rcs'      = s.rcs

Observe(op, name, s) ==
    last' = [op |-> op, name |-> name, was |-> name \in required,
             res |-> s.res, ev |-> s.ev, diverged |-> s.diverged,
             calls |-> s.calls, arg |-> <<>>]

ObserveArg(op, arg, s) ==
    last' = [op |-> op, name |-> <<>>, was |-> FALSE,
             res |-> s.res, ev |-> s.ev, diverged |-> s.diverged,
             calls |-> s.calls, arg |-> arg]

\* An operation ends: its state is committed and what it observed recorded.
Done(s, op, name)   == Commit(s) /\ Observe(op, name, s)
DoneArg(s, op, arg) == Commit(s) /\ ObserveArg(op, arg, s)

\* The host can act: the process runs and the interpreter is open.
Live == proc = "running" /\ closes = 0

HasHandle == Live /\ handles > 0

NumLoaders == Len(files[<<"a">>]) + Len(files[<<"b">>])

\* MrubyImpl::def_file
DefFile(name, req) ==
    /\ HasHandle
    /\ NumLoaders < MaxLoaders
    /\ Done([Cur EXCEPT !.files[name] = Append(@, req)],
            "def_file", name)

\* The host runs "require 'name'" with run.
HostRequire(name) ==
    /\ HasHandle
    /\ Done(Run(Cur, ScriptRequire(name), MaxDepth),
            "require", name)

\* The environment creates a file with some content, or removes a file.
CreateFile(path, content) ==
    /\ Live
    /\ path \notin fs
    /\ DoneArg([Cur EXCEPT !.fs = @ \cup {path}, !.body[path] = content],
               "create_file", path)

RemoveFile(path) ==
    /\ Live
    /\ path \in fs
    /\ DoneArg([Cur EXCEPT !.fs = @ \ {path}, !.body[path] = FileContent(path)],
               "remove_file", path)

\* mruby.execute(path)
HostExecute(path) ==
    /\ HasHandle
    /\ DoneArg(Execute(Cur, path, MaxDepth), "execute", path)

\* mruby.filename(f)
HostFilename(f) ==
    /\ HasHandle
    /\ DoneArg(Filename(Cur, f), "filename", f)

\* ------------------------------------------------- the host's operations
DefClass(T, c) ==
    /\ HasHandle /\ ndefs < MaxDefs
    /\ DoneArg(DefClassOp([Cur EXCEPT !.ndefs = @ + 1], T, c),
               "def_class", <<T, c>>)

DefMethod(T, m, method) ==
    /\ HasHandle /\ ndefs < MaxDefs
    /\ DoneArg(DefMethodOp([Cur EXCEPT !.ndefs = @ + 1], T, m, method),
               "def_method", <<T, m>>)

DefClassMethod(T, m, method) ==
    /\ HasHandle /\ ndefs < MaxDefs
    /\ DoneArg(DefClassMethodOp([Cur EXCEPT !.ndefs = @ + 1], T, m, method),
               "def_class_method", <<T, m>>)

\* The host runs a script that calls a method, with run.
HostRun(script) ==
    /\ HasHandle
    /\ DoneArg(Run(Cur, script, MaxDepth),
               "run", script)

\* MrubyType::clone and drop in host code.
CloneHandle ==
    /\ HasHandle /\ handles < MaxHandles
    /\ DoneArg([Cur EXCEPT !.handles = @ + 1, !.strong = @ + 1],
               "clone_handle", <<>>)

DropHandle ==
    /\ HasHandle
    /\ DoneArg(ReleaseHandle([Cur EXCEPT !.handles = @ - 1]),
               "drop_handle", <<>>)

CallScripts ==
    { ScriptICall(c, m, r) : c \in ClassNames, m \in MethodNames, r \in {"none", "RustPanic"} }
    \cup { ScriptCCall(c, m, r) : c \in ClassNames, m \in UserMethods, r \in {"none", "RustPanic"} }

NextDispatch ==
    \/ \E T \in Types, c \in ClassNames : DefClass(T, c)
    \/ \E T \in Types, m \in UserMethods, f \in Closures : DefMethod(T, m, f)
    \/ \E T \in Types, m \in UserMethods, f \in Closures : DefClassMethod(T, m, f)
    \/ \E sc \in CallScripts : HostRun(sc)
    \/ CloneHandle
    \/ DropHandle

SpecDispatch == Init /\ [][NextDispatch]_vars

\* ------------------------------------------------ the host's Value operations
Held == BagToSet(vals)
HeldData == { v \in Held : v.typ = "data" }
Keep(s, val) == [s EXCEPT !.vals = @ (+) SetToBag({val})]
Room == BagCardinality(vals) < MaxVals

\* The host keeps what an operation gave it.
KeepRet(s)   == IF s.res.ok THEN Keep(s, s.ret) ELSE s
KeepNew(s)   == IF s.res.ok THEN Keep([s EXCEPT !.strong = @ + 1], s.res.val) ELSE s
KeepClone(s) == IF Running(s) THEN Keep(s, s.ret) ELSE s
KeepRes(s)   == IF Running(s) /\ s.res.ok THEN Keep(s, s.res.val) ELSE s
KeepRc(s)    == IF Running(s) /\ s.res.ok
                THEN [s EXCEPT !.rcs = @ (+) SetToBag({s.res.val.v})] ELSE s
\* init takes its Value by value and gives it back unless it panics.
Consumed(s, val) ==
    IF s.res.kind = "panic" THEN [s EXCEPT !.vals = @ (-) SetToBag({val})] ELSE s
RoomObjs == Len(objs) < MaxInst /\ Len(hobjs) < MaxObjs

\* mruby.obj(o)
MkObj(T) ==
    /\ HasHandle /\ Room /\ RoomObjs
    /\ DoneArg(KeepRet(MkObjOp(Cur, T)), "obj", <<T>>)

\* mruby.run("A.new"): an instance no initialize has written to.
NewInstance(c) ==
    /\ HasHandle /\ Room /\ Len(objs) < MaxInst
    /\ DoneArg(KeepNew(Run(Cur, ScriptNew(c), MaxDepth)), "new", <<c>>)

\* mruby.nil().to_obj::<T>(), and the same for a fixnum and an array: the
\* Value is made, cast and dropped.
CastPrim(val, T) ==
    /\ HasHandle
    /\ DoneArg(ToObj(Cur, val, T),
               "to_obj", <<val, T>>)

\* value.init(o)
InitVal(val, T) ==
    /\ Live /\ val \in Held /\ Len(hobjs) < MaxObjs
    /\ DoneArg(Consumed(InitOp(Cur, val, T), val),
               "init", <<val, T>>)

\* value.clone()
CloneVal(val) ==
    /\ Live /\ val \in Held /\ Room
    /\ DoneArg(KeepClone([ValueClone(Cur, val) EXCEPT !.res = Ok(val)]),
               "clone", <<val>>)

\* value.call("dup", vec![])
DupVal(val) ==
    /\ Live /\ val \in Held /\ Room
    /\ DoneArg(KeepRes(ValueCall(Cur, val, "dup")), "dup", <<val>>)

\* value.to_obj::<T>()
CastObj(val, T) ==
    /\ Live /\ val \in Held /\ BagCardinality(rcs) < MaxRcs
    /\ DoneArg(KeepRc(ToObj(Cur, val, T)), "to_obj", <<val, T>>)

\* A Value or an Rc<T> the host held goes out of scope.
DropVal(val) ==
    /\ Live /\ val \in Held
    /\ DoneArg(DropValueOp([Cur EXCEPT !.vals = @ (-) SetToBag({val})], val),
               "drop", <<val>>)

DropRc(ptr) ==
    /\ proc = "running" /\ BagIn(ptr, rcs)
    /\ DoneArg(DropRcOp([Cur EXCEPT !.rcs = @ (-) SetToBag({ptr})], ptr),
               "drop_rc", <<ptr>>)

\* The collector reclaims a script instance.
Finalize(o) ==
    /\ Live /\ o \in 1..Len(objs) /\ ~objs[o].fin
    /\ DoneArg(FinalizeOp(Cur, o),
               "finalize", <<o>>)

Prims == { Nil, Fixnum(1), Array }

NextObj ==
    \/ \E T \in Types, c \in ClassNames : ndefs < MaxClassDefs /\ DefClass(T, c)
    \/ \E T \in Types : MkObj(T)
    \/ \E c \in ClassNames : NewInstance(c)
    \/ \E v \in Prims, T \in Types : CastPrim(v, T)
    \/ \E v \in Held, T \in Types : InitVal(v, T)
    \/ \E v \in Held : CloneVal(v)
    \/ \E v \in Held : DupVal(v)
    \/ \E v \in Held, T \in Types : CastObj(v, T)
    \/ \E v \in Held : DropVal(v)
    \/ \E h \in 1..MaxObjs : DropRc(h)
    \/ \E o \in 1..MaxInst : Finalize(o)

SpecObj == Init /\ [][NextObj]_vars

\* mruby.option(Some(o)) and mruby.option(None::<T>)
MkOption(T, some) ==
    /\ HasHandle /\ Room /\ RoomObjs
    /\ DoneArg(KeepRet(OptionOp(Cur, T, some)), "option", <<T, some>>)

\* The host keeps the Rc<T> inside a Some.
KeepSome(s) ==
    IF Running(s) /\ s.res.ok /\ s.res.val.typ = "some"
    THEN [s EXCEPT !.rcs = @ (+) SetToBag({s.res.val.v})] ELSE s

\* value.to_option::<T>()
OptionCast(val, T) ==
    /\ Live /\ val \in Held /\ BagCardinality(rcs) < MaxRcs
    /\ DoneArg(KeepSome(ToOption(Cur, val, T)), "to_option", <<val, T>>)

\* Optional objects going into the interpreter and coming back.
NextOption ==
    \/ \E T \in Types, c \in ClassNames : ndefs < MaxClassDefs /\ DefClass(T, c)
    \/ \E T \in Types, some \in BOOLEAN : MkOption(T, some)
    \/ \E c \in ClassNames : NewInstance(c)
    \/ \E v \in Held, T \in Types : OptionCast(v, T)
    \/ \E v \in Held : DropVal(v)
    \/ \E h \in 1..MaxObjs : DropRc(h)

SpecOption == Init /\ [][NextOption]_vars

\* The host's entry points into the interpreter, checked and unchecked.
HostRunb(script) ==
    /\ HasHandle
    /\ DoneArg(Runb(Cur, script, MaxDepth), "runb", script)

HostRunUnchecked(script) ==
    /\ HasHandle
    /\ DoneArg(RunUnchecked(Cur, script, MaxDepth), "run_unchecked", script)

\* The Value a call has returned is dropped at once.
Discard(s) == IF Running(s) /\ s.res.ok THEN DropValueOp(s, s.res.val) ELSE s

\* value.call(m, vec![]) and value.call_unchecked(m, vec![])
HostCall(val, m) ==
    /\ Live /\ val \in Held
    /\ DoneArg(Discard(ValueCall(Cur, val, m)), "call", <<val, m>>)

HostCallUnchecked(val, m) ==
    /\ Live /\ val \in Held
    /\ DoneArg(Discard(ValueCallUnchecked(Cur, val, m)), "call_unchecked", <<val, m>>)

EntryClosures == { CRet(1), CPanic(PayloadStr), CRunUnchecked, CRunChecked }
EntryScripts ==
    { ScriptTrue, ScriptRaise }
    \cup { ScriptCCall(c, m, r) : c \in ClassNames, m \in UserMethods,
                                 r \in {"none", "TypeError"} }

NextEntry ==
    \/ \E T \in Types, c \in ClassNames : ndefs < MaxEntryDefs /\ DefClass(T, c)
    \/ \E T \in Types, m \in UserMethods, f \in EntryClosures :
          ndefs < MaxEntryDefs /\ DefMethod(T, m, f)
    \/ \E T \in Types, m \in UserMethods, f \in EntryClosures :
          ndefs < MaxEntryDefs /\ DefClassMethod(T, m, f)
    \/ \E c \in ClassNames : NewInstance(c)
    \/ \E sc \in EntryScripts : HostRun(sc)
    \/ \E sc \in EntryScripts : HostRunb(sc)
    \/ \E sc \in EntryScripts : HostRunUnchecked(sc)
    \/ \E v \in Held, m \in UserMethods : HostCall(v, m)
    \/ \E v \in Held, m \in UserMethods : HostCallUnchecked(v, m)

SpecEntry == Init /\ [][NextEntry]_vars

\* Closures that use the handle they are given.
ReenterClosures == { CRet(1), CFilename }

NextReenter ==
    \/ \E T \in Types, c \in ClassNames : ndefs < MaxClassDefs /\ DefClass(T, c)
    \/ \E T \in Types, m \in UserMethods, f \in ReenterClosures : DefMethod(T, m, f)
    \/ \E T \in Types : MkObj(T)
    \/ \E c \in ClassNames, m \in UserMethods : HostRun(ScriptICall(c, m, "none"))
    \/ \E v \in Held, m \in UserMethods : HostCall(v, m)
    \/ \E v \in Held, m \in UserMethods : HostCallUnchecked(v, m)
    \/ \E v \in Held : DropVal(v)

SpecReenter == Init /\ [][NextReenter]_vars

\* Registration and injection together: the operations that need T's entry.
RegClosures == { CRet(1), CPanic(PayloadStr) }

NextReg ==
    \/ \E T \in Types, c \in ClassNames : DefClass(T, c)
    \/ \E T \in Types, m \in UserMethods, f \in RegClosures : DefMethod(T, m, f)
    \/ \E T \in Types, m \in UserMethods, f \in RegClosures : DefClassMethod(T, m, f)
    \/ \E T \in Types : MkObj(T)
    \/ \E c \in ClassNames : NewInstance(c)
    \/ \E v \in Held, T \in Types : InitVal(v, T)
    \/ \E v \in Held : DropVal(v)

SpecReg == Init /\ [][NextReg]_vars

NextLoad ==
    \/ \E n \in ModNames, r \in Loaders : DefFile(n, r)
    \/ \E n \in ModNames : HostRequire(n)
    \/ \E p \in Paths : \E c \in {FileContent(p), Unreadable} : CreateFile(p, c)
    \/ \E p \in Paths : RemoveFile(p)
    \/ \E f \in HostNames : HostFilename(f)

SpecLoad == Init /\ [][NextLoad]_vars

\* The host executing files and running scripts itself.
ExecContents == { ScriptTrue, ScriptRaise, Unreadable }

NextExec ==
    \/ \E p \in ExecPaths, c \in ExecContents : CreateFile(p, c)
    \/ \E p \in ExecPaths : RemoveFile(p)
    \/ \E p \in ExecPaths : HostExecute(p)
    \/ \E f \in HostNames : HostFilename(f)
    \/ \E sc \in {ScriptTrue, ScriptRaise} : HostRun(sc)

SpecExec == Init /\ [][NextExec]_vars

\* The same with every way of running a script, for the source name they
\* leave behind.
NextName ==
    \/ \E p \in ExecPaths, c \in ExecContents : CreateFile(p, c)
    \/ \E p \in ExecPaths : RemoveFile(p)
    \/ \E p \in ExecPaths : HostExecute(p)
    \/ \E f \in HostNames : HostFilename(f)
    \/ \E sc \in {ScriptTrue, ScriptRaise} : HostRun(sc)
    \/ \E sc \in {ScriptTrue, ScriptRaise} : HostRunb(sc)
    \/ \E sc \in {ScriptTrue, ScriptRaise} : HostRunUnchecked(sc)

SpecName == Init /\ [][NextName]_vars

\* mruby.class_name::<T>()
ClassName(T) ==
    /\ HasHandle
    /\ DoneArg(ClassNameOp(Cur, T), "class_name", <<T>>)

\* Registration, re-registration and the calls that follow.
NextClass ==
    \/ \E T \in Types, c \in ClassNames : DefClass(T, c)
    \/ \E T \in Types, m \in UserMethods, f \in RegClosures : DefMethod(T, m, f)
    \/ \E T \in Types, m \in UserMethods, f \in RegClosures : DefClassMethod(T, m, f)
    \/ \E T \in Types : ClassName(T)
    \/ \E sc \in CallScripts : HostRun(sc)
    \/ CloneHandle

SpecClass == Init /\ [][NextClass]_vars

\* ================================================================ claims

\* ---- C1 ----------------------------------------------------------------
\* C1: once a name is in the required-set, a later require of it returns
\* false and runs no loader callback and no file, whatever was registered or
\* appeared on disk since; so a module's side effects happen at most once.
LoadEvents(ev) == { i \in DOMAIN ev : ev[i].e \in {"loader", "file"} }

RequireOnce ==
    /\ [][ (last'.op = "require" /\ last'.name \in required)
              => /\ last'.res = Ok(Bool(FALSE))
                 /\ LoadEvents(last'.ev) = {}
                 /\ runs' = runs ]_vars
    /\ [](\A n \in ModNames : runs[n] <= 1 /\ (runs[n] = 1 => n \in required))

\* A second require of a module that got a loader after its first load.
RequireOnceWitness ==
    /\ last.op = "require" /\ last.was
    /\ last.res = Ok(Bool(FALSE))
    /\ files[last.name] # <<>>
    /\ RbPath(last.name) \in fs
    /\ runs[last.name] = 1

\* ---- C2 ----------------------------------------------------------------
PanicCalls(ev) == { i \in DOMAIN ev : ev[i].e = "closure" /\ ev[i].clo.k = "panic" }

\* The text of a payload that is a &'static str or a String, else "".
PayloadText(p) == IF p.kind \in {"str", "String"} THEN p.text ELSE <<>>

\* C2: when a closure dispatched from a script panics, the process goes on
\* and the script sees a RustPanic exception whose message is the payload's
\* text (empty for a payload that is no string): a rescue of RustPanic gets
\* that message, and without a rescue run answers Err(Runtime) with it.  This
\* holds for instance and class methods alike.
PanicBecomesException ==
    (last.op = "run" /\ PanicCalls(last.ev) # {}) =>
        /\ proc = "running"
        /\ \A i \in PanicCalls(last.ev) :
              last.res = IF last.arg.rescue = "RustPanic"
                         THEN Ok(Str(PayloadText(last.ev[i].clo.p)))
                         ELSE Err("Runtime", <<"RustPanic", ": ">>
                                             \o PayloadText(last.ev[i].clo.p))

\* ---- C3 ----------------------------------------------------------------
PanickingLoaders(ev) ==
    { i \in DOMAIN ev : ev[i].e = "loader" /\ files[ev[i].name][ev[i].arg].k = "panic" }

\* C3: no panic of host code leaves a native entry point: when a loader run
\* by require panics, the process goes on and the panic has become a script
\* exception, which the run that required the module reports as Err(Runtime).
UnwindIntercepted ==
    (last.op = "require" /\ PanickingLoaders(last.ev) # {}) =>
        /\ proc = "running"
        /\ last.res.kind = "Runtime"

\* ---- C4 ----------------------------------------------------------------
\* The script instance o has a host object and has not been reclaimed.
Attached(o) == ~objs[o].fin /\ objs[o].ptr # 0

\* to_obj::<T> gets past the lookup of T and the comparison of the names.
CastableAs(v, T) == classes[T].reg /\ classes[T].name = v.cls

\* C4: while a script instance has not been finalized, the count of its host
\* object is at least one more than the number of Rc<T> the host holds from
\* to_obj, so the object is alive, and to_obj on every held Value of that
\* instance answers Ok with that object; clones and drops of Values do not
\* change this.
HostObjectAlive ==
    \A o \in DOMAIN objs : Attached(o) =>
        /\ hobjs[objs[o].ptr].rc >= 1 + CopiesIn(objs[o].ptr, rcs)
        /\ \A v \in HeldData :
              (v.v = o /\ CastableAs(v, objs[o].dt)) =>
                  ToObj(Cur, v, objs[o].dt).res
                      = Ok(Val("rc", objs[o].ptr, objs[o].dt, <<>>))

\* One of two clones of a Value was dropped, and the cast of the other works.
HostObjectAliveWitness ==
    /\ last.op = "drop"
    /\ last.arg[1] \in HeldData
    /\ Attached(last.arg[1].v)
    /\ CastableAs(last.arg[1], objs[last.arg[1].v].dt)
    /\ ToObj(Cur, last.arg[1], objs[last.arg[1].v].dt).res.ok

ClosedOnceAtEnd ==
    /\ closes <= 1
    /\ closes = 1 => (handles = 0 /\ vals = EmptyBag)

\* ---- C7 ----------------------------------------------------------------
\* The cast of the Value an operation has just returned.
RoundTrip(s, T) == ToObj(s, s.ret, T)

\* The held Values that are instances of T's class no object was written to.
FreshOf(T) ==
    { v \in HeldData : /\ ~objs[v.v].fin
                       /\ objs[v.v].ptr = 0
                       /\ v.cls = classes[T].class }

\* C7: for every registered T, obj(o).to_obj::<T>() answers Ok with the
\* object o that obj has just stored, and so does v.init(o).to_obj::<T>()
\* for every fresh instance v of T's class.
InjectCastRoundTrip ==
    \A T \in Types : classes[T].reg =>
        /\ RoundTrip(MkObjOp(Cur, T), T).res = Ok(Val("rc", Len(hobjs) + 1, T, <<>>))
        /\ RoundTrip(MkObjOp(Cur, T), T).hobjs[Len(hobjs) + 1].ty = T
        /\ \A v \in FreshOf(T) :
              /\ RoundTrip(InitOp(Cur, v, T), T).res
                     = Ok(Val("rc", Len(hobjs) + 1, T, <<>>))
              /\ RoundTrip(InitOp(Cur, v, T), T).hobjs[Len(hobjs) + 1].ty = T

\* init has written the first host object into an instance made by a script,
\* and the cast of that Value gives the object back.
InjectCastRoundTripWitness ==
    /\ last.op = "init" /\ last.res.ok
    /\ Len(hobjs) = 1
    /\ objs[last.arg[1].v].ptr = 1
    /\ ToObj(Cur, last.arg[1], last.arg[2]).res = Ok(Val("rc", 1, last.arg[2], <<>>))

\* ---- C8 ----------------------------------------------------------------
\* C8: to_obj::<T>() with T not registered answers Err(Undef) for nil, a
\* fixnum, an array and any foreign-data Value, without a call into the
\* interpreter.
UnregisteredCastUndef ==
    /\ (last.op = "to_obj" /\ ~classes[last.arg[2]].reg) =>
           /\ last.res = Err("Undef", <<>>)
           /\ last.calls = 0
           /\ proc = "running"
    /\ \A T \in Types : ~classes[T].reg =>
           \A v \in Prims \cup Held :
               /\ ToObj(Cur, v, T).res = Err("Undef", <<>>)
               /\ ToObj(Cur, v, T).calls = 0

\* A foreign-data Value was cast to a type that is not registered.
UnregisteredCastUndefWitness ==
    /\ last.op = "to_obj"
    /\ last.arg[1].typ = "data"
    /\ objs[last.arg[1].v].ptr # 0
    /\ ~classes[last.arg[2]].reg
    /\ last.res = Err("Undef", <<>>)

\* ---- C9 ----------------------------------------------------------------
\* C9: to_obj::<T>() with T registered answers Ok only for a Value whose
\* class name is the name recorded for T; for a live Value of another class
\* name it answers Err(Undef) and changes no host object's count, whatever
\* the data type of the Value's instance.
NameMismatchUndef ==
    /\ [][ ( /\ last'.op = "to_obj"
             /\ classes[last'.arg[2]].reg
             /\ last'.arg[1].cls # classes[last'.arg[2]].name
             /\ ~Reclaimed(Cur, last'.arg[1]) )
           => /\ last'.res = Err("Undef", <<>>)
              /\ hobjs' = hobjs
              /\ proc' = "running" ]_vars
    /\ []( (last.op = "to_obj" /\ proc = "running" /\ last.res.ok) =>
               last.arg[1].cls = classes[last.arg[2]].name )

\* A Value whose instance carries T's data type was cast to T after T was
\* registered again under another name.
NameMismatchUndefWitness ==
    /\ last.op = "to_obj"
    /\ last.arg[1].typ = "data"
    /\ Attached(last.arg[1].v)
    /\ objs[last.arg[1].v].dt = last.arg[2]
    /\ classes[last.arg[2]].reg
    /\ classes[last.arg[2]].name # last.arg[1].cls
    /\ last.res = Err("Undef", <<>>)

\* ---- C10 ---------------------------------------------------------------
\* The closures a run has entered, in order.
ClosuresRun(ev) ==
    [ i \in 1..Len(SelectSeq(ev, LAMBDA e : e.e = "closure")) |->
          SelectSeq(ev, LAMBDA e : e.e = "closure")[i].clo ]

\* The run of a call of m answered what the closure clo returns.
Answered(clo) == clo.k = "ret" => last.res = Ok(Fixnum(clo.v))

\* def_method leaves the class table alone and def_class_method the
\* instance table.
TablesIndependent ==
    /\ last'.op = "def_method" => (class_methods' = class_methods /\ cm' = cm)
    /\ last'.op = "def_class_method" => (methods' = methods /\ im' = im)

\* C10 as stated: for every type T whose class the receiver's class is, a
\* call of instance method m runs exactly the closure stored under (T, m) in
\* the instance table and a call of class method m the one under (T, m) in
\* the class table, and the run answers what it returns; the two tables are
\* independent.
DispatchByType ==
    /\ [](\A T \in Types :
            (/\ last.op = "run"
             /\ classes[T].reg /\ classes[T].class = last.arg.cls) =>
                /\ (last.arg.k = "icall" /\ methods[T].tab[last.arg.m] # NoClosure) =>
                       /\ ClosuresRun(last.ev) = << methods[T].tab[last.arg.m] >>
                       /\ Answered(methods[T].tab[last.arg.m])
                /\ (last.arg.k = "ccall" /\ class_methods[T].tab[last.arg.m] # NoClosure) =>
                       /\ ClosuresRun(last.ev) = << class_methods[T].tab[last.arg.m] >>
                       /\ Answered(class_methods[T].tab[last.arg.m]))
    /\ [][TablesIndependent]_vars

\* C10, amended: the type is the one whose def_method (def_class_method) has
\* last bound m in the receiver's script class; the call runs exactly the
\* closure stored under that type and m in the table of its kind, and the
\* run answers what it returns; the two tables are independent.
DispatchByBinding ==
    /\ []( (last.op = "run" /\ last.arg.cls \in sdef) =>
             /\ ( /\ last.arg.k = "icall"
                  /\ im[last.arg.cls][last.arg.m] # "none"
                  /\ methods[im[last.arg.cls][last.arg.m]].tab[last.arg.m] # NoClosure ) =>
                    /\ ClosuresRun(last.ev)
                         = << methods[im[last.arg.cls][last.arg.m]].tab[last.arg.m] >>
                    /\ Answered(methods[im[last.arg.cls][last.arg.m]].tab[last.arg.m])
             /\ ( /\ last.arg.k = "ccall"
                  /\ cm[last.arg.cls][last.arg.m] # "none"
                  /\ class_methods[cm[last.arg.cls][last.arg.m]].tab[last.arg.m] # NoClosure ) =>
                    /\ ClosuresRun(last.ev)
                         = << class_methods[cm[last.arg.cls][last.arg.m]].tab[last.arg.m] >>
                    /\ Answered(class_methods[cm[last.arg.cls][last.arg.m]].tab[last.arg.m]) )
    /\ [][TablesIndependent]_vars

\* A class method m was called where T also has an instance method m with
\* another closure, and the run answered the class method's value.
DispatchByBindingWitness ==
    /\ last.op = "run" /\ last.arg.k = "ccall"
    /\ cm[last.arg.cls][last.arg.m] # "none"
    /\ class_methods[cm[last.arg.cls][last.arg.m]].tab[last.arg.m].k = "ret"
    /\ methods[cm[last.arg.cls][last.arg.m]].tab[last.arg.m].k = "ret"
    /\ methods[cm[last.arg.cls][last.arg.m]].tab[last.arg.m]
           # class_methods[cm[last.arg.cls][last.arg.m]].tab[last.arg.m]
    /\ last.res = Ok(Fixnum(class_methods[cm[last.arg.cls][last.arg.m]].tab[last.arg.m].v))

\* ---- C11 ---------------------------------------------------------------
\* The last run called m on a class where m is bound to a trampoline whose
\* type has no closure under m in the table of that kind.
MissingClosure ==
    /\ last.op = "run" /\ last.arg.cls \in sdef
    /\ \/ /\ last.arg.k = "icall"
          /\ im[last.arg.cls][last.arg.m] # "none"
          /\ methods[im[last.arg.cls][last.arg.m]].tab[last.arg.m] = NoClosure
       \/ /\ last.arg.k = "ccall"
          /\ cm[last.arg.cls][last.arg.m] # "none"
          /\ class_methods[cm[last.arg.cls][last.arg.m]].tab[last.arg.m] = NoClosure

\* C11: a trampoline entered for a symbol its type's table has no closure
\* for raises TypeError "Method not found." as a script exception, which the
\* run reports as Err(Runtime), and no closure of the host is invoked; a
\* trampoline is bound only for a type that has its tables, so "Class not
\* found." cannot be met.
MissingClosureRaises ==
    /\ \A c \in ClassNames, m \in MethodNames :
          /\ im[c][m] # "none" => methods[im[c][m]].present
          /\ cm[c][m] # "none" => class_methods[cm[c][m]].present
    /\ MissingClosure =>
          /\ proc = "running"
          /\ ClosuresRun(last.ev) = <<>>
          /\ last.res = Err("Runtime", <<"TypeError", ": ", "Method not found.">>)

\* ---- C12 ---------------------------------------------------------------
\* The host type an operation was made for.
TypeOf(l) == IF l.op = "init" THEN l.arg[2] ELSE l.arg[1]

\* C12: def_method, def_class_method, obj and init for a type that def_class
\* has not registered panic with "Class not found." and leave the class
\* registry, both method tables and the bindings of the script classes as
\* they were.
FailsFast ==
    [][ ( /\ last'.op \in {"def_method", "def_class_method", "obj", "init"}
          /\ ~classes[TypeOf(last')].reg )
        => /\ last'.res = Err("panic", <<"Class not found.">>)
           /\ classes' = classes
           /\ methods' = methods
           /\ class_methods' = class_methods
           /\ im' = im /\ cm' = cm
           /\ sdef' = sdef ]_vars

\* init for an unregistered type has panicked while the other type is
\* registered and has a closure in its table.
FailsFastWitness ==
    /\ last.op = "init"
    /\ ~classes[last.arg[2]].reg
    /\ last.res = Err("panic", <<"Class not found.">>)
    /\ \E T \in Types : classes[T].reg /\ methods[T].tab["m"] # NoClosure

\* ---- C13 ---------------------------------------------------------------
\* The callbacks of module n that a require has invoked, in order.
LoaderCalls(ev, n) ==
    [ i \in 1..Len(SelectSeq(ev, LAMBDA e : e.e = "loader" /\ e.name = n)) |->
          SelectSeq(ev, LAMBDA e : e.e = "loader" /\ e.name = n)[i].arg ]

\* The last operation was a require, which returned, of a module that was not
\* yet required and has loader callbacks.
LoadedByCallbacks ==
    /\ last.op = "require" /\ ~last.was
    /\ files[last.name] # <<>>
    /\ proc = "running"

\* C13: require of a module not yet required that has loader callbacks puts
\* the name into the required-set before the first callback runs (a callback
\* that requires the module itself is answered false), invokes every callback
\* exactly once in the order of registration, returns true (the run reports
\* true unless a callback left an exception of a nested require active), and
\* executes none of the module's files.
CallbacksInOrder ==
    LoadedByCallbacks =>
        /\ last.name \in required
        /\ LoaderCalls(last.ev, last.name)
              = [ i \in 1..Len(files[last.name]) |-> i ]
        /\ \A i \in DOMAIN last.ev :
              /\ last.ev[i].e = "file" =>
                    last.ev[i].name \notin { BarePath(last.name), RbPath(last.name),
                                             MrbPath(last.name) }
              /\ ( /\ last.ev[i].e = "loader" /\ last.ev[i].name = last.name
                   /\ files[last.name][last.ev[i].arg] = LoaderReq(last.name) ) =>
                    /\ i < Len(last.ev)
                    /\ last.ev[i + 1].e = "skip" /\ last.ev[i + 1].name = last.name
        /\ \/ last.res = Ok(Bool(TRUE))
           \/ /\ last.res.kind = "Runtime"
              /\ \E i \in DOMAIN last.ev :
                    /\ last.ev[i].e = "loader"
                    /\ files[last.ev[i].name][last.ev[i].arg].k = "req"

\* A module with two callbacks, one of which requires the module itself, and
\* with a file of its name on disk, was loaded.
CallbacksInOrderWitness ==
    /\ LoadedByCallbacks
    /\ Len(files[last.name]) = 2
    /\ \E i \in 1..2 : files[last.name][i] = LoaderReq(last.name)
    /\ RbPath(last.name) \in fs
    /\ last.res = Ok(Bool(TRUE))

\* ---- C14 ---------------------------------------------------------------
\* The candidate files of module n, and the paths a require handed to
\* execute, in order.
Candidates(n) == { BarePath(n), RbPath(n), MrbPath(n) }

ExecutedPaths(ev) ==
    [ i \in 1..Len(SelectSeq(ev, LAMBDA e : e.e = "execute")) |->
          SelectSeq(ev, LAMBDA e : e.e = "execute")[i].name ]

\* The last operation was a require of a module that was not yet required,
\* has no loader callback and has a candidate file on disk.
LoadedFromFile ==
    /\ last.op = "require" /\ ~last.was
    /\ files[last.name] = <<>>
    /\ Candidates(last.name) \cap fs # {}

\* Exactly one candidate of the required module was handed to execute.
OneCandidateExecuted ==
    Cardinality({ i \in DOMAIN ExecutedPaths(last.ev) :
                     ExecutedPaths(last.ev)[i] \in Candidates(last.name) }) = 1

\* C14 as stated: the candidates are tried in the order name, name.rb,
\* name.mrb, and the first of them that is a file is executed, and only it.
CandidateOrderAsStated ==
    LoadedFromFile =>
        /\ ExecutedPaths(last.ev) # <<>>
        /\ ExecutedPaths(last.ev)[1] =
              IF BarePath(last.name) \in fs THEN BarePath(last.name)
              ELSE IF RbPath(last.name) \in fs THEN RbPath(last.name)
              ELSE MrbPath(last.name)
        /\ OneCandidateExecuted

\* C14, amended: the candidates are tried in the order name.rb, name.mrb,
\* name, and the first of them that is a file is executed, and only it.
CandidateOrder ==
    LoadedFromFile =>
        /\ ExecutedPaths(last.ev) # <<>>
        /\ ExecutedPaths(last.ev)[1] =
              IF RbPath(last.name) \in fs THEN RbPath(last.name)
              ELSE IF MrbPath(last.name) \in fs THEN MrbPath(last.name)
              ELSE BarePath(last.name)
        /\ OneCandidateExecuted

\* A module whose bytecode file and extension-less file both exist, while
\* its source file does not, was loaded from the bytecode file.
CandidateOrderWitness ==
    /\ LoadedFromFile
    /\ RbPath(last.name) \notin fs
    /\ {MrbPath(last.name), BarePath(last.name)} \subseteq fs
    /\ ExecutedPaths(last.ev) = << MrbPath(last.name) >>

\* ---- C15 ---------------------------------------------------------------
\* The text has the word in it.
Mentions(text, word) ==
    \E i \in 0..(Len(text) - Len(word)) : SubSeq(text, i + 1, i + Len(word)) = word

\* C15: require of a module that has no loader callback and none of whose
\* candidate files exists raises RuntimeError with a message that mentions
\* name.rb and name.mrb, which the run reports as Err(Runtime); nothing is
\* executed and the required-set is left as it was, so a later require tries
\* again.
MissingModuleRaises ==
    [][ ( /\ last'.op = "require"
          /\ last'.name \notin required
          /\ files[last'.name] = <<>>
          /\ Candidates(last'.name) \cap fs = {} )
        => /\ last'.res.kind = "Runtime"
           /\ Mentions(last'.res.msg, <<"RuntimeError">>)
           /\ Mentions(last'.res.msg, RbPath(last'.name))
           /\ Mentions(last'.res.msg, MrbPath(last'.name))
           /\ ExecutedPaths(last'.ev) = <<>>
           /\ required' = required
           /\ runs' = runs ]_vars

\* A require of a missing module failed and left its name out of the
\* required-set, which holds another module.
MissingModuleRaisesWitness ==
    /\ last.op = "require" /\ ~last.was
    /\ files[last.name] = <<>>
    /\ Candidates(last.name) \cap fs = {}
    /\ last.res.kind = "Runtime"
    /\ last.name \notin required
    /\ required # {}

\* ---- C16 ---------------------------------------------------------------
\* The errors execute has returned to require, in order; the last one is the
\* error of the outermost load.
FailedLoads(ev) ==
    [ i \in 1..Len(SelectSeq(ev, LAMBDA e : e.e = "failed")) |->
          SelectSeq(ev, LAMBDA e : e.e = "failed")[i].arg ]

LastFailed(ev) == FailedLoads(ev)[Len(FailedLoads(ev))]

\* The RuntimeError that require raises for the error r, as the run of a
\* script with source name file reports it.
ReportedAs(r, file) ==
    Err("Runtime", ExcRender([eclass |-> "RuntimeError", msg |-> ErrDisplay(r),
                              file |-> file]))

\* C16: when execute returns an error for the file require has chosen, be
\* it Runtime, Filetype or Io, require raises RuntimeError with the
\* description of that error as its message, which the run of "require"
\* reports as Err(Runtime); the file named name itself, having no extension,
\* always fails with Filetype; a load without an error answers true.
ExecuteErrorRaised ==
    [][ ( /\ last'.op = "require"
          /\ last'.name \notin required
          /\ files[last'.name] = <<>>
          /\ Candidates(last'.name) \cap fs # {}
          /\ proc' = "running" )
        => /\ FailedLoads(last'.ev) # <<>> =>
                /\ LastFailed(last'.ev).kind \in {"Runtime", "Filetype", "Io"}
                /\ last'.res = ReportedAs(LastFailed(last'.ev), ctxfile)
           /\ FailedLoads(last'.ev) = <<>> => last'.res = Ok(Bool(TRUE))
           /\ ExecutedPaths(last'.ev)[1] = BarePath(last'.name) =>
                /\ FailedLoads(last'.ev) # <<>>
                /\ LastFailed(last'.ev) = Err("Filetype", <<>>) ]_vars

\* The file named like the module, without an extension, was chosen and the
\* run reports the RuntimeError with the description of the Filetype error.
ExecuteErrorRaisedWitness ==
    /\ LoadedFromFile
    /\ ExecutedPaths(last.ev) = << BarePath(last.name) >>
    /\ last.res = Err("Runtime",
                      <<"RuntimeError", ": ",
                        "Filetype error: script needs a compatible (.rb, .mrb) extension">>)

\* ---- C17 ---------------------------------------------------------------
\* Every load among the events, at whatever depth, has left behind the
\* source name that was current when its execute began; saved holds the
\* names of the loads still under way, innermost first.
RECURSIVE NamesRestored(_, _, _)
NamesRestored(ev, i, saved) ==
    IF i > Len(ev) THEN TRUE
    ELSE IF ev[i].e = "execute"
    THEN NamesRestored(ev, i + 1, <<ev[i].arg>> \o saved)
    ELSE IF ev[i].e = "loaded"
    THEN /\ saved # <<>>
         /\ ev[i].name = Head(saved)
         /\ NamesRestored(ev, i + 1, Tail(saved))
    ELSE NamesRestored(ev, i + 1, saved)

Loads(ev) == { i \in DOMAIN ev : ev[i].e = "loaded" }

\* C17: after a require that returns, the current source name of the handle
\* is what it was before the call, a name or none, whether the load succeeded
\* or failed, and the same holds for every require nested in the loaded
\* files.
SourceNameRestored ==
    [][ (last'.op = "require" /\ proc' = "running")
        => /\ filename' = filename
           /\ NamesRestored(last'.ev, 1, <<>>) ]_vars

\* With a source name set by the host, a require loaded a file that required
\* another file, and a load failed.
SourceNameRestoredWitness ==
    /\ last.op = "require"
    /\ filename \in HostNames
    /\ Cardinality(Loads(last.ev)) = 2
    /\ FailedLoads(last.ev) # <<>>

\* ---- C19 ---------------------------------------------------------------
\* The file can be opened and read.
Readable(path) == path \in fs /\ body[path] # Unreadable

\* The entry points among the events.
Entered(ev) ==
    [ i \in 1..Len(SelectSeq(ev, LAMBDA e : e.e \in {"run", "runb"})) |->
          SelectSeq(ev, LAMBDA e : e.e \in {"run", "runb"})[i].e ]

\* For a file that can be read, execute answers what run answers for the
\* content of a .rb file and what runb answers for the content of a .mrb
\* file, the source name being the file's name.
DispatchOnExtension ==
    /\ (Readable(last'.arg) /\ Extension(last'.arg) = "rb") =>
          /\ Entered(last'.ev) = <<"run">>
          /\ last'.res = Run(Filename(Cur, FileName(last'.arg)),
                             body[last'.arg], MaxDepth).res
    /\ (Readable(last'.arg) /\ Extension(last'.arg) = "mrb") =>
          /\ Entered(last'.ev) = <<"runb">>
          /\ last'.res = Runb(Filename(Cur, FileName(last'.arg)),
                              body[last'.arg], MaxDepth).res

\* C19 as stated: execute runs a .rb file with run and a .mrb file with
\* runb, and every path with another extension or with none fails with
\* Filetype.
ExecuteByExtensionAsStated ==
    [][ last'.op = "execute" =>
          /\ HasExtension(last'.arg) => DispatchOnExtension
          /\ (~HasExtension(last'.arg) \/ Extension(last'.arg) \notin {"rb", "mrb"}) =>
                last'.res = Err("Filetype", <<>>) ]_vars

\* C19, amended: a path without an extension fails with Filetype, whether
\* or not it is a file; a path with an extension that cannot be opened fails
\* with Io, whatever the extension; a file that can be read is run with run
\* as .rb, with runb as .mrb, and fails with Filetype for another extension.
ExecuteByExtension ==
    [][ last'.op = "execute" =>
          /\ ~HasExtension(last'.arg) =>
                /\ last'.res = Err("Filetype", <<>>)
                /\ Entered(last'.ev) = <<>>
          /\ HasExtension(last'.arg) =>
                /\ DispatchOnExtension
                /\ last'.arg \notin fs => last'.res = Err("Io", IoNotFound)
                /\ (last'.arg \in fs /\ ~Readable(last'.arg)) =>
                      last'.res = Err("Io", IoDenied)
                /\ (Readable(last'.arg) /\ Extension(last'.arg) \notin {"rb", "mrb"}) =>
                      /\ last'.res = Err("Filetype", <<>>)
                      /\ Entered(last'.ev) = <<>> ]_vars

\* A bytecode file whose code raises was executed: the error is the one of
\* runb, without a source name.
ExecuteByExtensionWitness ==
    /\ last.op = "execute"
    /\ Extension(last.arg) = "mrb" /\ Readable(last.arg)
    /\ body[last.arg] = ScriptRaise
    /\ last.res = Err("Runtime", <<"TypeError", ": ", "expected String">>)

\* ---- C20 ---------------------------------------------------------------
\* execute was called on the file script.rb, which can be read.
ExecutedScriptRb ==
    /\ last.op = "execute"
    /\ FileName(last.arg) = <<"script", "rb">>
    /\ Readable(last.arg)

\* run was called on '' + 1 with no source name set.
RanUnnamed == last.op = "run" /\ last.arg = ScriptRaise /\ ctxfile = NoName

\* C20 as stated: execute on script.rb containing '' + 1 returns the Runtime
\* error "TypeError: expected String", the message run gives when no source
\* name is set, and on script.rb containing true it returns true.
ScriptRbResultsAsStated ==
    /\ ExecutedScriptRb =>
          /\ body[last.arg] = ScriptRaise =>
                last.res = Err("Runtime", <<"TypeError", ": ", "expected String">>)
          /\ body[last.arg] = ScriptTrue => last.res = Ok(Bool(TRUE))
    /\ RanUnnamed =>
          last.res = Err("Runtime", <<"TypeError", ": ", "expected String">>)

\* C20, amended: execute on script.rb containing '' + 1 returns the Runtime
\* error "script.rb:1: expected String (TypeError)", because execute sets the
\* source name first; "TypeError: expected String" is what run gives when no
\* source name is set; execute on script.rb containing true returns true.
ScriptRbResults ==
    /\ ExecutedScriptRb =>
          /\ body[last.arg] = ScriptRaise =>
                last.res = Err("Runtime", <<"script", "rb", ":1: ", "expected String",
                                            " (", "TypeError", ")">>)
          /\ body[last.arg] = ScriptTrue => last.res = Ok(Bool(TRUE))
    /\ RanUnnamed =>
          last.res = Err("Runtime", <<"TypeError", ": ", "expected String">>)

\* script.rb containing '' + 1 was executed and a Runtime error came back.
ScriptRbResultsWitness ==
    /\ ExecutedScriptRb
    /\ body[last.arg] = ScriptRaise
    /\ last.res.kind = "Runtime"

\* ---- C18 ---------------------------------------------------------------
CheckedOps   == { "run", "runb", "call" }
UncheckedOps == { "run_unchecked", "call_unchecked" }

\* The interpreter after the execution that the operation l starts from the
\* current state, before the entry point looks at the outcome.
AfterExecution(l) ==
    CASE l.op \in {"run", "run_unchecked"} -> EvalScript(Cur, l.arg, MaxDepth)
      [] l.op = "runb"                     -> EvalBytes(Cur, l.arg, MaxDepth)
      [] OTHER                             -> Funcall(Cur, l.arg[1], l.arg[2])

\* The class method that the script l.arg calls is bound to the closure clo.
CallsClosure(l, clo) ==
    /\ l.arg.k = "ccall" /\ l.arg.cls \in sdef
    /\ cm[l.arg.cls][l.arg.m] # "none"
    /\ class_methods[cm[l.arg.cls][l.arg.m]].tab[l.arg.m] = clo

\* C18: run, runb and Value::call answer Ok with the value exactly when no
\* exception is active after the execution, and Err(Runtime) with the
\* rendered exception otherwise; run_unchecked and Value::call_unchecked
\* always answer a value and leave the exception active, so that a script
\* whose method runs '' + 1 through run_unchecked can rescue the TypeError,
\* while there is nothing to rescue when the method used run.
EntryPointsPropagate ==
    [][ proc' = "running" =>
          /\ last'.op \in CheckedOps =>
                /\ last'.res.ok <=> AfterExecution(last').exc = NoExc
                /\ last'.res.ok => last'.res = Ok(AfterExecution(last').ret)
                /\ ~last'.res.ok =>
                      last'.res = Err("Runtime", ExcRender(AfterExecution(last').exc))
          /\ last'.op \in UncheckedOps =>
                /\ last'.res = Ok(AfterExecution(last').ret)
                /\ exc' = AfterExecution(last').exc
          /\ (last'.op = "run_unchecked" /\ last'.arg = ScriptRaise /\ exc = NoExc) =>
                /\ last'.res = Ok(Nil)
                /\ exc'.eclass = "TypeError"
          /\ ( /\ last'.op \in {"run", "run_unchecked"} /\ exc = NoExc
               /\ last'.arg.rescue = "TypeError" ) =>
                /\ CallsClosure(last', CRunUnchecked) =>
                      last'.res = Ok(Str(<<"expected String">>))
                /\ CallsClosure(last', CRunChecked) => last'.res = Ok(Nil) ]_vars

\* A script called a class method whose closure runs '' + 1 with
\* run_unchecked, rescued the TypeError and answered its message.
EntryPointsPropagateWitness ==
    /\ last.op = "run"
    /\ last.arg.rescue = "TypeError"
    /\ CallsClosure(last, CRunUnchecked)
    /\ last.res = Ok(Str(<<"expected String">>))

\* ---- C21 ---------------------------------------------------------------
\* Every registered type has a closure under dup in its instance table, and
\* its class has dup bound to a trampoline.
DupInstalled ==
    \A T \in Types : classes[T].reg =>
        /\ methods[T].present
        /\ methods[T].tab["dup"] = CDup
        /\ im[classes[T].class]["dup"] \in Types

\* A call of dup on a held foreign-data Value has returned.
DupReturned == last'.op = "dup" /\ proc' = "running" /\ last'.res.ok

ClassNameAnswers ==
    last'.op = "class_name" =>
        /\ last'.res = IF classes[last'.arg[1]].reg
                       THEN Ok(Str(<<classes[last'.arg[1]].name>>))
                       ELSE Err("Undef", <<>>)
        /\ UNCHANGED <<loadVars, regVars, rcVars, objVars, exc, proc>>

\* def_class::<T>(c) puts a new entry with the name c in the place of T's
\* entry, whatever was there; nothing else touches an entry.
EntryOverwritten ==
    IF last'.op = "def_class"
    THEN classes' = [classes EXCEPT ![last'.arg[1]] =
                        ClassEntry(last'.arg[1], last'.arg[2])]
    ELSE classes' = classes

\* C22: class_name::<T>() answers Err(Undef) when def_class::<T> was never
\* called and otherwise the name given to the latest def_class::<T>, whose
\* entry has replaced the one before; class_name changes no state.
ClassNameLatest ==
    /\ [](last.op = "none" => \A T \in Types : ~classes[T].reg)
    /\ [][ClassNameAnswers /\ EntryOverwritten]_vars

\* class_name answered the second of two names T was registered under.
ClassNameLatestWitness ==
    /\ last.op = "class_name" /\ last.res.ok
    /\ ndefs >= 2
    /\ last.res.val = Str(<<"B">>)
    /\ "A" \in sdef
    /\ \A T \in Types : T # last.arg[1] => ~classes[T].reg

\* ---- C23 ---------------------------------------------------------------
\* to_option on a value that is no foreign-data value: Ok(None), and nothing
\* else happens.
NoneForOthers ==
    (last'.op = "to_option" /\ last'.arg[1].typ # "data") =>
        /\ last'.res = Ok(None)
        /\ proc' = "running"
        /\ UNCHANGED <<regVars, rcVars, objVars, exc>>

\* to_option on a foreign-data value: what to_obj does, with Ok(rc) turned
\* into Ok(Some(rc)) and every error left as it is.
SomeByCast ==
    (last'.op = "to_option" /\ last'.arg[1].typ = "data" /\ proc' = "running") =>
        /\ Running(ToObj(Cur, last'.arg[1], last'.arg[2]))
        /\ hobjs' = ToObj(Cur, last'.arg[1], last'.arg[2]).hobjs
        /\ IF ToObj(Cur, last'.arg[1], last'.arg[2]).res.ok
           THEN /\ last'.res.ok
                /\ last'.res.val.typ = "some"
                /\ last'.res.val.v = ToObj(Cur, last'.arg[1], last'.arg[2]).res.val.v
           ELSE /\ last'.res = ToObj(Cur, last'.arg[1], last'.arg[2]).res
                /\ last'.res.kind = "Undef"

\* What to_option::<T> would answer for the Value option has just returned.
Back(T) == ToOption(Cur, last.res.val, T).res

\* C23: to_option::<T>() answers Ok(None) for every value that is no
\* foreign-data value, T registered or not, and for a foreign-data value what
\* to_obj::<T>() answers with the object wrapped in Some, errors included; so
\* option(None).to_option::<T>() is None, and option(Some(o)).to_option::<T>()
\* is Some of the object o that option has just stored.
OptionRoundTrip ==
    /\ [][NoneForOthers /\ SomeByCast]_vars
    /\ []( (last.op = "option" /\ last.res.ok) =>
             IF last.arg[2]
             THEN Back(last.arg[1]) = Ok(Val("some", Len(hobjs), last.arg[1], <<>>))
             ELSE \A T \in Types : Back(T) = Ok(None) )

\* to_option::<T> of a held nil answered None with T not registered, and the
\* host also holds an object made by option(Some(o)).
OptionRoundTripWitness ==
    /\ last.op = "to_option" /\ last.arg[1] = Nil
    /\ ~classes[last.arg[2]].reg
    /\ last.res = Ok(None)
    /\ \E v \in HeldData : Attached(v.v) /\ ToOption(Cur, v, objs[v.v].dt).res.ok

\* ---- C24 ---------------------------------------------------------------
\* C24: a script call into a native callback leaves the strong count of the
\* handle as it found it, on every way out of the callback, the exits for a
\* missing table or closure and the panic path included; so no run brings
\* the count to zero, and the interpreter is not closed, while the host holds
\* a handle.  Stated for the runs the process survives.
HandleBalanced ==
    [][ (last'.op = "run" /\ proc' = "running")
            => (strong' = strong /\ closes' = closes) ]_vars

\* ---- C25 ---------------------------------------------------------------
\* The places in a require's events where the load of n begins: its first
\* loader callback, or the execute of one of its candidate files.
LoadStarts(ev, n) ==
    { i \in DOMAIN ev :
         \/ ev[i].e = "loader" /\ ev[i].name = n /\ ev[i].arg = 1
         \/ ev[i].e = "execute" /\ ev[i].name \in Candidates(n) }

\* The requires that were answered false inside the load of the module the
\* host asked for.
SkippedInside(l) ==
    { i \in DOMAIN l.ev : l.ev[i].e = "skip" /\ l.ev[i].name = l.name /\ ~l.was }

\* C25: chains of nested requires end: the evaluation of a require never
\* goes deeper than MaxDepth, no module's load begins twice inside one
\* require, and a require of a name whose load is under way is answered
\* false after the load of that name began, running nothing.
CyclesEnd ==
    /\ ~last.diverged
    /\ last.op = "require" =>
          /\ \A n \in ModNames : Cardinality(LoadStarts(last.ev, n)) <= 1
          /\ \A i \in SkippedInside(last) :
                \E j \in LoadStarts(last.ev, last.name) : j < i

\* A module's file required a second module whose file required the first
\* again: both were loaded once and the inner require was answered false.
CyclesEndWitness ==
    /\ last.op = "require" /\ proc = "running" /\ last.res.ok
    /\ SkippedInside(last) # {}
    /\ \A n \in ModNames : Cardinality(LoadStarts(last.ev, n)) = 1
    /\ \E i \in DOMAIN last.ev : last.ev[i].e = "execute"

\* ---- C26 ---------------------------------------------------------------
\* def_class::<T> leaves T with an instance table that holds dup alone and
\* an empty class table, and the entries of the other types as they were.
TablesReset ==
    last'.op = "def_class" =>
        /\ methods'[last'.arg[1]] =
               [present |-> TRUE, tab |-> [EmptyTab EXCEPT !["dup"] = CDup]]
        /\ class_methods'[last'.arg[1]] = NewTable
        /\ \A U \in Types \ {last'.arg[1]} :
              /\ methods'[U] = methods[U]
              /\ class_methods'[U] = class_methods[U]
              /\ classes'[U] = classes[U]

\* C26: right after def_class::<T>, T's instance method table holds exactly
\* dup and its class method table is empty, whatever was registered for T
\* before, and the entries of every other type are unchanged; a script call
\* of a method that was defined before the re-registration then enters the
\* trampoline, runs no closure and raises TypeError "Method not found.",
\* which the run reports.
ReRegistrationResets ==
    /\ [][TablesReset]_vars
    /\ [](MissingClosure =>
             /\ proc = "running"
             /\ ClosuresRun(last.ev) = <<>>
             /\ last.res = Err("Runtime", <<"TypeError", ": ", "Method not found.">>))

\* ---- C27 ---------------------------------------------------------------
\* The last operation was a require that chose a file of the module, and the
\* execution of that file failed.
FailedHere ==
    /\ last.op = "require" /\ ~last.was /\ proc = "running"
    /\ files[last.name] = <<>>
    /\ ExecutedPaths(last.ev) # <<>>
    /\ ExecutedPaths(last.ev)[1] \in Candidates(last.name)
    /\ FailedLoads(last.ev) # <<>>
    /\ ~last.res.ok

\* The same require made once more.
Retry == Run(Cur, ScriptRequire(last.name), MaxDepth)

\* C27: a require whose chosen file fails during execution leaves the name
\* in the required-set, no name ever leaves the set, and a second require of
\* the name answers false and executes nothing.
FailedStaysRequired ==
    /\ [][required \subseteq required']_vars
    /\ [](FailedHere =>
            /\ last.name \in required
            /\ Retry.res = Ok(Bool(FALSE))
            /\ ExecutedPaths(Retry.ev) = <<>>
            /\ LoadEvents(Retry.ev) = {}
            /\ Retry.runs = runs)

\* The file of a module raised while it was loaded; the file is still on
\* disk, and the module is in the required-set.
FailedStaysRequiredWitness ==
    /\ FailedHere
    /\ LastFailed(last.ev).kind = "Runtime"
    /\ ExecutedPaths(last.ev)[1] \in fs
    /\ last.name \in required
    /\ Retry.res = Ok(Bool(FALSE))

\* ---- C28 ---------------------------------------------------------------
\* The places in the events where a borrow_mut met a borrow that was out.
Conflicts(ev) == { i \in DOMAIN ev : ev[i].e = "conflict" }

\* C28: no borrow of the handle's interior is out while a host closure runs
\* in a trampoline, so a closure that calls filename on the handle it is
\* given meets no borrow conflict, however the script call that reached it
\* was started.
NoBorrowConflict == Conflicts(last.ev) = {}

\* ---- C29 ---------------------------------------------------------------
\* The current source name: the handle's field and the name the context
\* gives to the code it compiles.
SourceNameIs(f) == filename' = f /\ ctxfile' = f
SourceNameKept  == filename' = filename /\ ctxfile' = ctxfile

\* C29: execute on a path with an extension leaves the path's file name as
\* the current source name, whether it answers Ok or fails with Io, Runtime
\* or Filetype; on a path without an extension it answers the Filetype error
\* and leaves the source name as it was; run, runb and run_unchecked leave
\* the source name as it was.
ExecuteLeavesName ==
    [][ /\ last'.op = "execute" =>
              IF HasExtension(last'.arg)
              THEN SourceNameIs(FileName(last'.arg))
              ELSE last'.res = Err("Filetype", <<>>) /\ SourceNameKept
        /\ last'.op \in {"run", "runb", "run_unchecked"} => SourceNameKept ]_vars

\* execute of a path in a directory failed to open the file, and the current
\* source name is the file's name without the directory.
ExecuteLeavesNameWitness ==
    /\ last.op = "execute" /\ last.res.kind = "Io"
    /\ last.arg = <<Dir, "script", "rb">>
    /\ filename = <<"script", "rb">> /\ ctxfile = <<"script", "rb">>
    /\ <<"script", "mrb">> \in fs

\* ---- C30 ---------------------------------------------------------------
\* init has returned for a Value whose instance had a host object already.
InitAgain ==
    /\ last'.op = "init" /\ last'.res.ok /\ proc' = "running"
    /\ objs[last'.arg[1].v].ptr # 0

\* The host objects no script instance points to.
Orphans == { h \in DOMAIN hobjs : \A o \in DOMAIN objs : objs[o].ptr # h }

\* C30: init on a Value whose instance has a host object writes the new
\* object's pointer over the old one and releases nothing: the count of the
\* old object, and of every other object, stays as it was; an object no
\* instance points to keeps one count more than the Rc<T> the host holds, so
\* it is never dropped; and to_obj on the Value then answers the new object.
InitOverwrites ==
    /\ [][ InitAgain =>
             /\ objs'[last'.arg[1].v].ptr = Len(hobjs) + 1
             /\ Len(hobjs') = Len(hobjs) + 1
             /\ \A h \in DOMAIN hobjs : hobjs'[h] = hobjs[h] ]_vars
    /\ [](\A h \in Orphans : hobjs[h].rc >= 1 + CopiesIn(h, rcs))
    /\ []( ( /\ last.op = "init" /\ last.res.ok /\ proc = "running"
             /\ CastableAs(last.arg[1], last.arg[2]) ) =>
               ToObj(Cur, last.arg[1], last.arg[2]).res
                   = Ok(Val("rc", Len(hobjs), last.arg[2], <<>>)) )

\* A second object was written into an instance: the first has no instance
\* and no Rc<T> left and still a count of one, and the cast gives the second.
InitOverwritesWitness ==
    /\ last.op = "init" /\ last.res.ok /\ proc = "running"
    /\ Len(hobjs) = 2
    /\ objs[last.arg[1].v].ptr = 2
    /\ 1 \in Orphans
    /\ hobjs[1].rc = 1
    /\ rcs = EmptyBag
    /\ ToObj(Cur, last.arg[1], last.arg[2]).res = Ok(Val("rc", 2, last.arg[2], <<>>))

====
